---- MODULE Spec2Model ----
(***************************************************************************)
(* Offline-first synchronisation core of ADHDapp: the server's per-record  *)
(* merge (mergeById) and POST /sync handler, the refresh-token rotation of *)
(* POST /auth/refresh, the accounts and streaks of POST /auth/register and *)
(* POST /auth/login, the client's SyncService.sync state machine with the  *)
(* App component's callers, the client's local store (storage.ts), and     *)
(* the session cycle of the FocusTimer component.                          *)
(*                                                                         *)
(* Timestamps are ISO-8601 strings in the code and are compared as strings.*)
(* They are modelled by integers under an order-preserving encoding:       *)
(*   Nil (-1)  the field is absent (undefined / null),                     *)
(*   0         the empty string "" (falsy in JavaScript),                  *)
(*   n >= 1    the fixed-width timestamp of clock tick n.                  *)
(***************************************************************************)
EXTENDS Integers, Sequences, FiniteSets, TLC

VARIABLES
  now,          \* the wall clock, in ticks (new Date())
  usersById,    \* server: user id -> StoredUser
  last,         \* the last request the server answered, with its response
  reqs,         \* /auth/refresh requests of the clients: slot -> request
  handed,       \* the token pairs that the server's responses gave to clients
  rotated,      \* the refresh tokens that /auth/refresh has accepted
  mIn,          \* inputs of the merge under test: stored, X, Y
  mOut,         \* results of the merge under test: X then Y, Y then X
  online,       \* client: navigator.onLine
  syncing,      \* client: SyncService.syncing
  lastResult,   \* client: SyncService.lastResult
  tokens,       \* client: SyncService.tokens (the access token, or NoToken)
  localTasks,   \* client: the tasks collection in localStorage
  idbTimers,    \* client: the timers object store in IndexedDB
  appTasks,     \* client: App state `tasks`
  appTimers,    \* client: App state `timers`
  calls,        \* client: the SyncService.sync calls in progress
  edits,        \* client: the number of edits that the user has made
  usersByEmail, \* server: email -> the id of the StoredUser it maps to
  handlers,     \* server: the requests to /auth/register and /auth/login
  sIn,          \* inputs of the streak update under test: user, clock, zone
  sOut,         \* result of the streak update under test
  disk,         \* client: what localStorage and IndexedDB hold and do
  saved,        \* client: the arrays of the last saveTasksToCache and
                \* saveTimersToCache that completed
  loaded,       \* client: the outcome of the last load from the store
  timer,        \* client: the state and the startedAt ref of FocusTimer
  interval,     \* client: the countdown's interval with what its callback
                \* closes over, or NoInterval
  sessions      \* client: the calls of onLogSession by FocusTimer: how many,
                \* and the entry of the last one

vars == <<now, usersById, last, reqs, handed, rotated, mIn, mOut, online, syncing, lastResult,
          tokens, localTasks, idbTimers, appTasks, appTimers, calls, edits,
          usersByEmail, handlers, sIn, sOut, disk, saved, loaded, timer,
          interval, sessions>>

serverVars == <<usersById, last>>
authVars == <<reqs, handed, rotated>>
mergeVars == <<mIn, mOut>>
accountVars == <<usersByEmail, handlers, sIn, sOut>>
storeVars == <<disk, saved, loaded>>
timerVars == <<timer, interval, sessions>>
clientVars == <<online, syncing, lastResult, tokens, localTasks, idbTimers,
                appTasks, appTimers, calls, edits>>

----
\* Bounds of the model.

\* longest incoming batch of one collection in a /sync request
MaxBatch == 2
\* last clock tick
MaxClock == 2
\* clock ticks in one second (the clock of jwt's iat is in whole seconds)
TicksPerSecond == 2
\* /auth/refresh requests that clients have under way at one time
MaxRequests == 2
\* SyncService.sync calls that the App has under way at one time
MaxCalls == 2
\* edits that the user makes: a task added or toggled, a timer entry added
MaxEdits == 2

\* undefined, for a timestamp
Nil == -1

\* the empty string, for a timestamp
EmptyStr == 0

\* no token: a missing Authorization header, a missing body field
NoToken == [sub |-> "", type |-> "", iat |-> 0, exp |-> 0, sig |-> ""]

\* no user: req.user is undefined
NoUser == ""

NoPair ==
  [accessToken |-> NoToken, refreshToken |-> NoToken, expiresIn |-> 0,
   issuedAt |-> 0]

----
\* Records.

Range(s) == {s[i] : i \in 1..Len(s)}

Ids(s) == {s[i].id : i \in 1..Len(s)}

\* all sequences over S of length at most n
SeqsUpTo(S, n) == UNION {[1..k -> S] : k \in 0..n}

\* a ?? b
Coalesce(a, b) == IF a # Nil THEN a ELSE b

\* item.f, undefined when the object has no such property
Field(item, f) == IF f \in DOMAIN item THEN item[f] ELSE Nil

\* item.updatedAt ?? item.completedAt ?? item.startedAt ?? ''
RecencyKey(item) ==
  Coalesce(Field(item, "updatedAt"),
           Coalesce(Field(item, "completedAt"),
                    Coalesce(Field(item, "startedAt"), EmptyStr)))

----
\* mergeById

\* position of the entry of key id in the insertion-ordered map, 0 if none
IndexOfId(merged, id) ==
  IF \E i \in 1..Len(merged) : merged[i].id = id
  THEN CHOOSE i \in 1..Len(merged) :
         merged[i].id = id /\ \A j \in 1..(i - 1) : merged[j].id # id
  ELSE 0

MapAppend(merged, item) == Append(merged, item)

\* merged.set(item.id, item): a new key goes last, an old key keeps its place
MapSet(merged, item) ==
  LET i == IndexOfId(merged, item.id)
  IN IF i = 0 THEN Append(merged, item) ELSE [merged EXCEPT ![i] = item]

ReplaceAlways(priorDate, itemDate) == TRUE

ReplaceNever(priorDate, itemDate) == FALSE

ReplaceIfOlder(priorDate, itemDate) == priorDate = EmptyStr \/ itemDate < priorDate

ReplaceUnlessEqual(priorDate, itemDate) ==
  priorDate = EmptyStr \/ itemDate # priorDate

\* !priorDate || itemDate > priorDate
ShouldReplace(priorDate, itemDate) == priorDate = EmptyStr \/ itemDate > priorDate

FromNothing(merged, existing) == merged

\* for (const item of existing) merged.set(item.id, item)
RECURSIVE FromExisting(_, _)
FromExisting(merged, existing) ==
  IF existing = <<>> THEN merged
  ELSE FromExisting(MapSet(merged, Head(existing)), Tail(existing))

\* for (const item of incoming) { ... }
RECURSIVE MergeIncoming(_, _)
MergeIncoming(merged, incoming) ==
  IF incoming = <<>> THEN merged
  ELSE LET item == Head(incoming)
           i == IndexOfId(merged, item.id)
       IN IF i = 0
          THEN MergeIncoming(MapSet(merged, item), Tail(incoming))
          ELSE IF ShouldReplace(RecencyKey(merged[i]), RecencyKey(item))
               THEN MergeIncoming(MapSet(merged, item), Tail(incoming))
               ELSE MergeIncoming(merged, Tail(incoming))

mergeById(existing, incoming) ==
  MergeIncoming(FromExisting(<<>>, existing), incoming)

----
\* The records of the model.

TaskItem(id, completed, updatedAt) ==
  [id |-> id, title |-> "a", completed |-> completed, updatedAt |-> updatedAt]

TimerEntry(id, startedAt, completedAt) ==
  [id |-> id, durationMs |-> 1, startedAt |-> startedAt, completedAt |-> completedAt]

\* revisions of task t1 with keys "", 1 and 2, two of them tied at "" and two
\* at 1, and one revision of task t2
MergeUniverse ==
  {TaskItem("t1", c, u) : c \in BOOLEAN, u \in {EmptyStr, 1}}
    \cup {TaskItem("t1", FALSE, 2), TaskItem("t2", FALSE, 1)}

----
\* The merge as a function: two batches applied to one stored collection in
\* both orders.

MergeInit ==
  /\ mIn \in [stored : SeqsUpTo(MergeUniverse, 1),
              X : SeqsUpTo(MergeUniverse, MaxBatch),
              Y : SeqsUpTo(MergeUniverse, MaxBatch)]
  /\ mOut = [pc |-> "start", xy |-> <<>>, yx |-> <<>>]

MergeXY ==
  /\ mOut.pc = "start"
  /\ mOut' = [mOut EXCEPT !.pc = "xy",
                          !.xy = mergeById(mergeById(mIn.stored, mIn.X), mIn.Y)]
  /\ UNCHANGED <<mIn, now, serverVars, authVars, clientVars, accountVars,
               storeVars, timerVars>>

MergeYX ==
  /\ mOut.pc = "xy"
  /\ mOut' = [mOut EXCEPT !.pc = "done",
                          !.yx = mergeById(mergeById(mIn.stored, mIn.Y), mIn.X)]
  /\ UNCHANGED <<mIn, now, serverVars, authVars, clientVars, accountVars,
               storeVars, timerVars>>

\* no merge under test
MergeIdle ==
  /\ mIn = [stored |-> <<>>, X |-> <<>>, Y |-> <<>>]
  /\ mOut = [pc |-> "done", xy |-> <<>>, yx |-> <<>>]

\* the server after construction: no account
ServerInit ==
  /\ usersById = << >>
  /\ last = [op |-> "none"]

\* no streak update under test
StreakIdle ==
  /\ sIn = [currentStreak |-> 1, longestStreak |-> 1, lastCheckIn |-> 1,
            clock |-> 1, shift |-> 0]
  /\ sOut = [pc |-> "done", currentStreak |-> 1, longestStreak |-> 1,
             lastCheckIn |-> 1]

\* no handler of /auth/register or /auth/login at its await, and usersByEmail
\* as the registrations of the accounts left it
AccountIdle(users) ==
  /\ usersByEmail = [e \in {users[u].email : u \in DOMAIN users} |->
                       CHOOSE u \in DOMAIN users : users[u].email = e]
  /\ handlers = << >>
  /\ StreakIdle

\* no /auth/refresh request under way
AuthIdle ==
  /\ reqs = << >>
  /\ handed = {}
  /\ rotated = {}

\* no SyncResult: lastResult is null, sync returns null
NoResult ==
  [tasks |-> <<>>, timers |-> <<>>, lastSyncedAt |-> Nil, message |-> ""]

\* localStorage.getItem(TASKS_KEY) gives null: the item was never set
NoItem == [kind |-> "null", value |-> <<>>]

\* indexedDB has no database of the name: open() creates it, and the object
\* store with it
NoDb == [kind |-> "none", records |-> << >>]

\* nothing loaded yet
NotLoaded ==
  [op |-> "none", outcome |-> "none", tasks |-> <<>>, timers |-> << >>]

\* the presets of FocusTimer, in minutes
FOCUS_PRESET_MINUTES == 25
SHORT_BREAK_MINUTES == 5
LONG_BREAK_MINUTES == 15

\* the seconds of a minute on the countdown's scale (60 in the code)
SecondsPerMinute == 1

\* no interval is set: the countdown effect has not run, was cleaned up, or
\* its callback has cleared it. A set interval keeps the state that its
\* callback's finalizeSession closes over
NoInterval ==
  [live |-> FALSE, mode |-> "focus", completedFocusCount |-> 0,
   focusMinutes |-> 0]

\* no call of onLogSession yet
NoSessions ==
  [count |-> 0, last |-> [category |-> "", status |-> ""]]

\* FocusTimer after the first render: the useState initial values, the
\* startedAt ref null, no interval, nothing logged
TimerInit ==
  /\ timer = [focusMinutes |-> FOCUS_PRESET_MINUTES, mode |-> "focus",
              secondsRemaining |-> FOCUS_PRESET_MINUTES * SecondsPerMinute,
              totalSeconds |-> FOCUS_PRESET_MINUTES * SecondsPerMinute,
              runningState |-> "idle", completedFocusCount |-> 0,
              startedAt |-> FALSE]
  /\ interval = NoInterval
  /\ sessions = NoSessions

\* the store of a browser that never ran the client
StoreInit ==
  /\ disk = [tasks |-> NoItem, timers |-> NoDb]
  /\ saved = [tasks |-> <<>>, timers |-> <<>>]
  /\ loaded = NotLoaded

\* the client after construction and hydration of an empty cache
ClientInit ==
  /\ StoreInit
  /\ TimerInit
  /\ online = TRUE
  /\ syncing = FALSE
  /\ lastResult = NoResult
  /\ tokens = NoPair
  /\ localTasks = <<>>
  /\ idbTimers = << >>
  /\ appTasks = <<>>
  /\ appTimers = <<>>
  /\ calls = << >>
  /\ edits = 0

InitMerge ==
  /\ MergeInit /\ now = 1 /\ ServerInit /\ AuthIdle /\ ClientInit
  /\ AccountIdle(<< >>)

NextMerge == MergeXY \/ MergeYX

SpecMerge == InitMerge /\ [][NextMerge]_vars

\* the revisions of one id in the two batches carry pairwise distinct keys
DistinctKeys(X, Y) ==
  \A r1, r2 \in Range(X) \cup Range(Y) :
    (r1.id = r2.id /\ r1 # r2) => RecencyKey(r1) # RecencyKey(r2)

\* the record of id in a collection that has one
RecordOf(s, id) == s[IndexOfId(s, id)]

\* C5: with pairwise distinct RecencyKeys among the revisions of each id in
\* the two batches, merging X then Y leaves the same set of records as
\* merging Y then X, whatever the stored collection.
CommutesOnDistinctKeys ==
  (mOut.pc = "done" /\ DistinctKeys(mIn.X, mIn.Y))
    => Range(mOut.xy) = Range(mOut.yx)

\* both batches carry a revision of one id, the later batch wins in one order
\* and loses in the other
CommutesWitness ==
  /\ mOut.pc = "done"
  /\ DistinctKeys(mIn.X, mIn.Y)
  /\ \E x \in Range(mIn.X), y \in Range(mIn.Y) :
       /\ x.id = y.id
       /\ RecencyKey(x) > RecencyKey(y)
       /\ x.id \in Ids(mIn.stored)
       /\ x \in Range(mOut.xy)
       /\ x \in Range(mOut.yx)
       /\ RecordOf(mIn.stored, x.id) \notin Range(mOut.xy)

\* C6 as stated: merging X then Y leaves the same set of records as merging
\* Y then X for any two batches.
CommutesAlways == mOut.pc = "done" => Range(mOut.xy) = Range(mOut.yx)

\* ids for which the two batches hold different revisions with one key
TiedIds(X, Y) ==
  {r1.id : r1 \in {r \in Range(X) \cup Range(Y) :
                     \E r2 \in Range(X) \cup Range(Y) :
                       r.id = r2.id /\ r # r2 /\ RecencyKey(r) = RecencyKey(r2)}}

\* C6 amended: the two orders leave the same ids and, for every id, a record
\* of the same RecencyKey; the records themselves are the same for every id
\* whose different revisions in the two batches carry different RecencyKeys.
CommutesUpToTies ==
  mOut.pc = "done" =>
    /\ Ids(mOut.xy) = Ids(mOut.yx)
    /\ \A id \in Ids(mOut.xy) :
         /\ RecencyKey(RecordOf(mOut.xy, id)) = RecencyKey(RecordOf(mOut.yx, id))
         /\ id \notin TiedIds(mIn.X, mIn.Y)
              => RecordOf(mOut.xy, id) = RecordOf(mOut.yx, id)

\* two revisions tied at one key: each order keeps the one that arrived first
CommutesUpToTiesWitness ==
  /\ mOut.pc = "done"
  /\ \E id \in TiedIds(mIn.X, mIn.Y) :
       /\ id \in Ids(mOut.xy)
       /\ RecordOf(mOut.xy, id) # RecordOf(mOut.yx, id)
       /\ RecencyKey(RecordOf(mOut.xy, id)) # EmptyStr
  /\ \E id \in Ids(mOut.xy) :
       /\ id \notin TiedIds(mIn.X, mIn.Y)
       /\ id \in Ids(mIn.X) \cap Ids(mIn.Y)

----
\* The server: tokens.

jwtSecret == "dev-secret"
accessTtlSeconds == 900
refreshTtlSeconds == 604800

\* Math.floor(Date.now() / 1000), the clock of jwt's iat and exp
Seconds(t) == t \div TicksPerSecond

\* jwt.sign({ sub, type }, jwtSecret, { expiresIn }): the token is a function
\* of the claims, the second of issue and the secret
signToken(userId, type, expiresInSeconds, t) ==
  [sub |-> userId, type |-> type, iat |-> Seconds(t),
   exp |-> Seconds(t) + expiresInSeconds, sig |-> jwtSecret]

\* jwt.verify(token, jwtSecret) does not throw
jwtVerify(token, t) ==
  /\ token.sig = jwtSecret
  /\ Seconds(t) < token.exp

\* the AuthTokens that issueTokens returns
TokenPair(userId, t) ==
  [accessToken |-> signToken(userId, "access", accessTtlSeconds, t),
   refreshToken |-> signToken(userId, "refresh", refreshTtlSeconds, t),
   expiresIn |-> accessTtlSeconds,
   issuedAt |-> t]

issueTokensToAll(users, userId, t) ==
  [u \in DOMAIN users |->
     [users[u] EXCEPT !.refreshTokens =
        @ \cup {[sub |-> userId, type |-> "refresh", iat |-> t \div TicksPerSecond,
                 exp |-> (t \div TicksPerSecond) + refreshTtlSeconds,
                 sig |-> jwtSecret]}]]

\* usersById after issueTokens(userId)
issueTokens(users, userId, t) ==
  IF userId \in DOMAIN users
  THEN [users EXCEPT ![userId].refreshTokens =
          @ \cup {TokenPair(userId, t).refreshToken}]
  ELSE users

buildProfile(user) ==
  [id |-> user.id, email |-> user.email, displayName |-> user.displayName,
   currentStreak |-> user.currentStreak, longestStreak |-> user.longestStreak,
   lastCheckIn |-> user.lastCheckIn]

\* bcrypt.hash(password, 10): the hash keeps the password it was made from
\* and nothing gives the password back
bcryptHash(password) == [bcrypt |-> password]

\* bcrypt.compare(password, hash)
bcryptCompare(password, hash) == hash = bcryptHash(password)

\* the StoredUser that /auth/register creates
NewUser(id, email, password, t) ==
  [id |-> id, email |-> email, displayName |-> "n",
   currentStreak |-> 1, longestStreak |-> 1, lastCheckIn |-> t,
   passwordHash |-> bcryptHash(password), refreshTokens |-> {},
   tasks |-> <<>>, timers |-> <<>>]

authenticateAnyType(users, bearer, t) ==
  IF bearer = NoToken THEN NoUser
  ELSE IF ~jwtVerify(bearer, t) THEN NoUser
  ELSE IF bearer.sub \in DOMAIN users THEN bearer.sub
  ELSE NoUser

\* req.user after the authenticate middleware: a user id, or NoUser
authenticate(users, bearer, t) ==
  IF bearer = NoToken THEN NoUser
  ELSE IF ~jwtVerify(bearer, t) THEN NoUser
  ELSE IF bearer.type # "access" THEN NoUser
  ELSE IF bearer.sub \in DOMAIN users THEN bearer.sub
  ELSE NoUser

----
\* The server: POST /sync.

safeTasksStampsAll(tasks, t) ==
  [i \in 1..Len(tasks) |->
     [f \in DOMAIN tasks[i] \cup {"updatedAt"} |->
        IF f = "updatedAt" THEN t ELSE tasks[i][f]]]

\* tasks.map((task) => ({ ...task, updatedAt: task.updatedAt ?? now }))
safeTasks(tasks, t) ==
  [i \in 1..Len(tasks) |->
     [f \in DOMAIN tasks[i] \cup {"updatedAt"} |->
        IF f = "updatedAt" THEN Coalesce(Field(tasks[i], "updatedAt"), t)
        ELSE tasks[i][f]]]

\* timers.map((timer) => ({ ...timer, startedAt: timer.startedAt ?? now }))
safeTimers(timers, t) ==
  [i \in 1..Len(timers) |->
     [f \in DOMAIN timers[i] \cup {"startedAt"} |->
        IF f = "startedAt" THEN Coalesce(Field(timers[i], "startedAt"), t)
        ELSE timers[i][f]]]

SyncUsersStoresNothing(users, authUser, tasks, timers, t) == users

\* usersById after the handler
SyncUsers(users, authUser, tasks, timers, t) ==
  IF authUser = NoUser THEN users
  ELSE [users EXCEPT
          ![authUser].tasks = mergeById(@, safeTasks(tasks, t)),
          ![authUser].timers = mergeById(@, safeTimers(timers, t))]

\* the SyncResult that the handler answers
SyncResult(users, authUser, tasks, timers, t) ==
  IF authUser = NoUser
  THEN [tasks |-> safeTasks(tasks, t), timers |-> safeTimers(timers, t),
        lastSyncedAt |-> t,
        message |-> "Synced locally (no authenticated user)"]
  ELSE [tasks |-> mergeById(users[authUser].tasks, safeTasks(tasks, t)),
        timers |-> mergeById(users[authUser].timers, safeTimers(timers, t)),
        lastSyncedAt |-> t,
        message |-> "Synced with profile"]

\* one POST /sync request, from the middleware to the response; `last` keeps
\* the request, the accounts as it found them and the response
Sync(bearer, tasks, timers, nth) ==
  LET authUser == authenticate(usersById, bearer, now)
  IN /\ usersById' = SyncUsers(usersById, authUser, tasks, timers, now)
     /\ last' = [op |-> "sync", nth |-> nth, user |-> authUser,
                 bearer |-> bearer, tasks |-> tasks, timers |-> timers,
                 prior |-> usersById, status |-> 200,
                 body |-> SyncResult(usersById, authUser, tasks, timers, now)]

\* the response has left: the server is ready for the next request
Respond ==
  /\ last.op # "none"
  /\ last' = [op |-> "none"]

\* time passes
Tick ==
  /\ now < MaxClock
  /\ now' = now + 1

----
\* The server under /sync requests of one registered user and of anonymous
\* clients.

\* incoming tasks: revisions of t1 tied at "" and at 1, a later revision, a
\* revision without updatedAt, and a task t2
TaskUniverse == MergeUniverse \cup {TaskItem("t1", FALSE, Nil)}

\* incoming timers: one without any timestamp and two that completed at 2
TimerUniverse ==
  {TimerEntry("m1", Nil, Nil), TimerEntry("m1", 1, 2), TimerEntry("m1", 2, 2)}

\* the bodies of the /sync requests: at most MaxBatch records
SyncBodies ==
  {b \in [tasks : SeqsUpTo(TaskUniverse, MaxBatch),
          timers : SeqsUpTo(TimerUniverse, MaxBatch)] :
     Len(b.tasks) + Len(b.timers) <= MaxBatch}

\* the account u1 as /auth/register leaves it at tick 1
Registered ==
  issueTokens([u \in {"u1"} |-> NewUser("u1", "e1", "p1", 1)], "u1", 1)

InitSync ==
  /\ now = 1
  /\ usersById = Registered
  /\ last = [op |-> "none"]
  /\ AuthIdle
  /\ MergeIdle
  /\ AccountIdle(Registered)
  /\ ClientInit

\* a client sends a request
SyncRequest ==
  /\ last.op = "none"
  /\ \E bearer \in {NoToken, TokenPair("u1", 1).accessToken}, b \in SyncBodies :
       Sync(bearer, b.tasks, b.timers, 1)
  /\ UNCHANGED <<now, authVars, mergeVars, storeVars, accountVars, clientVars,
                 timerVars>>

\* the client that got the response sends the same request a second time
SyncAgain ==
  /\ last.op = "sync"
  /\ last.nth = 1
  /\ Sync(last.bearer, last.tasks, last.timers, 2)
  /\ UNCHANGED <<now, authVars, mergeVars, storeVars, accountVars, clientVars,
                 timerVars>>

SyncRespond ==
  /\ Respond
  /\ UNCHANGED <<now, usersById, authVars, mergeVars, storeVars, accountVars,
                 clientVars, timerVars>>

SyncTick == Tick /\ UNCHANGED <<serverVars, authVars, mergeVars, storeVars,
                                accountVars, clientVars, timerVars>>

NextSync == SyncRequest \/ SyncAgain \/ SyncRespond \/ SyncTick

SpecSync == InitSync /\ [][NextSync]_vars

\* the authenticated user's collections before the request, as the handler
\* passed the incoming ones to mergeById, and after it
SyncOfUser == last.op = "sync" /\ last.user # NoUser

PriorOf(c) == last.prior[last.user][c]

IncomingOf(c) ==
  IF c = "tasks" THEN safeTasks(last.tasks, last.body.lastSyncedAt)
  ELSE safeTimers(last.timers, last.body.lastSyncedAt)

MergedOf(c) == last.body[c]

StoredOf(c) == usersById[last.user][c]

Collections == {"tasks", "timers"}

\* the incoming revisions of one id
Revs(c, id) == {r \in Range(IncomingOf(c)) : r.id = id}

TiesFavorStored ==
  SyncOfUser =>
    \A c \in Collections :
      \A r \in Range(IncomingOf(c)) :
        (/\ r.id \in Ids(PriorOf(c))
         /\ RecencyKey(r) = RecencyKey(RecordOf(PriorOf(c), r.id))
         /\ \A q \in Revs(c, r.id) :
              RecencyKey(q) <= RecencyKey(RecordOf(PriorOf(c), r.id)))
          => RecordOf(StoredOf(c), r.id) = RecordOf(PriorOf(c), r.id)

\* C3: a /sync request, authenticated or not, leaves every id of every
\* account's tasks and timers in place, and the collections an authenticated
\* request answers hold every stored id, with the stored record for the ids
\* that the incoming batch does not mention.
NoSilentDeletion ==
  last.op = "sync" =>
    /\ \A u \in DOMAIN last.prior :
         /\ u \in DOMAIN usersById
         /\ \A c \in Collections : Ids(last.prior[u][c]) \subseteq Ids(usersById[u][c])
    /\ last.user # NoUser =>
         \A c \in Collections :
           \A id \in Ids(PriorOf(c)) :
             /\ id \in Ids(MergedOf(c))
             /\ id \notin Ids(IncomingOf(c))
                  => RecordOf(MergedOf(c), id) = RecordOf(PriorOf(c), id)

\* a batch that leaves out a stored task and an empty batch of timers against
\* a stored timer
NoSilentDeletionWitness ==
  /\ SyncOfUser
  /\ last.tasks # <<>>
  /\ last.timers = <<>>
  /\ PriorOf("timers") # <<>>
  /\ \E id \in Ids(PriorOf("tasks")) :
       /\ id \notin Ids(IncomingOf("tasks"))
       /\ id \in Ids(StoredOf("tasks"))
  /\ Len(StoredOf("tasks")) > Len(PriorOf("tasks"))

\* C4: the same batch sent a second time by an authenticated user leaves the
\* user's tasks and timers as the first application left them.
SyncIdempotent ==
  (SyncOfUser /\ last.nth = 2) =>
    \A c \in Collections : StoredOf(c) = PriorOf(c)

\* a collection holds at most one record per id
OnePerId(records) ==
  \A i, j \in 1..Len(records) : records[i].id = records[j].id => i = j

\* C31: after any sequence of /sync requests, batches that name one id more
\* than once included, every account's tasks and timers hold at most one
\* record per id.
NoDuplicateEntries ==
  \A u \in DOMAIN usersById :
    \A c \in Collections : OnePerId(usersById[u][c])

\* an authenticated batch held two revisions of a stored task's id, and the
\* account holds that id once
NoDuplicateEntriesWitness ==
  /\ SyncOfUser
  /\ Len(last.tasks) = 2
  /\ last.tasks[1].id = last.tasks[2].id
  /\ last.tasks[1] # last.tasks[2]
  /\ last.tasks[1].id \in Ids(PriorOf("tasks"))
  /\ Cardinality({i \in 1..Len(StoredOf("tasks")) :
                    StoredOf("tasks")[i].id = last.tasks[1].id}) = 1

\* C32: across every step of the server, the RecencyKey of the record that
\* an account stores under an id never decreases.
RecencyMonotone ==
  [][\A u \in DOMAIN usersById :
       \A c \in Collections :
         \A id \in Ids(usersById[u][c]) :
           /\ u \in DOMAIN usersById'
           /\ id \in Ids(usersById'[u][c])
           /\ RecencyKey(RecordOf(usersById'[u][c], id))
                >= RecencyKey(RecordOf(usersById[u][c], id))]_vars

\* a stored task with a key was replaced by a strictly newer revision, and
\* the same request's older timer revision left the stored timer's key
RecencyMonotoneWitness ==
  /\ SyncOfUser
  /\ \E r \in Range(IncomingOf("tasks")) :
       /\ r.id \in Ids(PriorOf("tasks"))
       /\ RecencyKey(RecordOf(PriorOf("tasks"), r.id)) # EmptyStr
       /\ RecencyKey(RecordOf(StoredOf("tasks"), r.id))
            > RecencyKey(RecordOf(PriorOf("tasks"), r.id))
  /\ \E r \in Range(IncomingOf("timers")) :
       /\ r.id \in Ids(PriorOf("timers"))
       /\ RecencyKey(r) < RecencyKey(RecordOf(PriorOf("timers"), r.id))
       /\ RecencyKey(RecordOf(StoredOf("timers"), r.id))
            = RecencyKey(RecordOf(PriorOf("timers"), r.id))

----
\* The server: POST /auth/refresh.

\* the status that the handler answers
RefreshStatus(users, refreshToken, t) ==
  IF refreshToken = NoToken THEN 400
  ELSE IF ~jwtVerify(refreshToken, t) THEN 401
  ELSE IF refreshToken.type # "refresh" THEN 401
  ELSE IF refreshToken.sub \notin DOMAIN users THEN 401
  ELSE IF refreshToken \notin users[refreshToken.sub].refreshTokens THEN 401
  ELSE 200

RefreshUsersDeleteFirst(users, refreshToken, t) ==
  IF refreshToken # NoToken /\ refreshToken.sub \in DOMAIN users
  THEN IF RefreshStatus(users, refreshToken, t) = 200
       THEN issueTokens([users EXCEPT ![refreshToken.sub].refreshTokens =
                           @ \ {refreshToken}],
                        refreshToken.sub, t)
       ELSE [users EXCEPT ![refreshToken.sub].refreshTokens =
               @ \ {[refreshToken EXCEPT !.sig = jwtSecret]}]
  ELSE users

RefreshUsersChecksIn(users, refreshToken, t) ==
  IF RefreshStatus(users, refreshToken, t) = 200
  THEN issueTokens([users EXCEPT
                      ![refreshToken.sub].refreshTokens = @ \ {refreshToken},
                      ![refreshToken.sub].lastCheckIn = t],
                   refreshToken.sub, t)
  ELSE users

\* usersById after the handler: user.refreshTokens.delete(refreshToken), then
\* issueTokens(user.id)
RefreshUsers(users, refreshToken, t) ==
  IF RefreshStatus(users, refreshToken, t) = 200
  THEN issueTokens([users EXCEPT ![refreshToken.sub].refreshTokens =
                      @ \ {refreshToken}],
                   refreshToken.sub, t)
  ELSE users

\* the tokens of the response, NoPair in an error response
RefreshTokens(users, refreshToken, t) ==
  IF RefreshStatus(users, refreshToken, t) = 200
  THEN TokenPair(refreshToken.sub, t)
  ELSE NoPair

\* one POST /auth/refresh request: the handler has no await, it runs from
\* the first line to the response without another handler in between
Refresh(refreshToken) ==
  /\ usersById' = RefreshUsers(usersById, refreshToken, now)
  /\ rotated' = IF RefreshStatus(usersById, refreshToken, now) = 200
                THEN rotated \cup {refreshToken} ELSE rotated
  /\ last' = [op |-> "refresh", token |-> refreshToken,
              replay |-> refreshToken \in rotated,
              prior |-> usersById,
              status |-> RefreshStatus(usersById, refreshToken, now),
              tokens |-> RefreshTokens(usersById, refreshToken, now)]

----
\* The server under /auth/refresh requests of clients that hold the tokens
\* of one registered user.

Requests == 1..MaxRequests

NoRequest ==
  [state |-> "idle", token |-> NoToken, status |-> 0, tokens |-> NoPair,
   with |-> {}, valid |-> FALSE]

InitAuth ==
  /\ now = 1
  /\ usersById = Registered
  /\ last = [op |-> "none"]
  /\ reqs = [i \in Requests |-> NoRequest]
  /\ handed = {TokenPair("u1", 1)}
  /\ rotated = {}
  /\ MergeIdle
  /\ AccountIdle(Registered)
  /\ ClientInit

\* the tokens a client can present: those of the pairs it was given
Presentable ==
  {p.refreshToken : p \in handed} \cup {p.accessToken : p \in handed}

\* the requests in flight that present this token
InFlightWith(token) ==
  {j \in Requests : reqs[j].state = "sent" /\ reqs[j].token = token}

\* a client posts a token to /auth/refresh
RefreshSend(i) ==
  /\ reqs[i].state = "idle"
  /\ \E token \in Presentable :
       reqs' = [j \in Requests |->
                  IF j = i
                  THEN [NoRequest EXCEPT
                          !.state = "sent", !.token = token,
                          !.with = InFlightWith(token),
                          !.valid = RefreshStatus(usersById, token, now) = 200]
                  ELSE IF j \in InFlightWith(token)
                  THEN [reqs[j] EXCEPT !.with = @ \cup {i}]
                  ELSE reqs[j]]
  /\ UNCHANGED <<now, serverVars, handed, rotated, mergeVars, storeVars,
                 accountVars, clientVars, timerVars>>

\* the server runs the handler on a request in flight
RefreshHandle(i) ==
  /\ reqs[i].state = "sent"
  /\ Refresh(reqs[i].token)
  /\ reqs' = [reqs EXCEPT
                ![i].state = "done",
                ![i].status = RefreshStatus(usersById, reqs[i].token, now),
                ![i].tokens = RefreshTokens(usersById, reqs[i].token, now)]
  /\ UNCHANGED <<now, handed, mergeVars, storeVars, accountVars, clientVars,
                 timerVars>>

\* the client gets the response and keeps the new pair
RefreshReceive(i) ==
  /\ reqs[i].state = "done"
  /\ handed' = IF reqs[i].status = 200 THEN handed \cup {reqs[i].tokens}
               ELSE handed
  /\ reqs' = [j \in Requests |->
                IF j = i THEN NoRequest
                ELSE [reqs[j] EXCEPT !.with = @ \ {i}]]
  /\ UNCHANGED <<now, serverVars, rotated, mergeVars, storeVars, accountVars,
                 clientVars, timerVars>>

AuthTick == Tick /\ UNCHANGED <<serverVars, authVars, mergeVars, storeVars,
                                accountVars, clientVars, timerVars>>

NextAuth ==
  \/ \E i \in Requests : RefreshSend(i)
  \/ \E i \in Requests : RefreshHandle(i)
  \/ \E i \in Requests : RefreshReceive(i)
  \/ AuthTick

SpecAuth == InitAuth /\ [][NextAuth]_vars

\* C7: a refresh token that /auth/refresh accepted once is answered 401 on
\* every later presentation.
RefreshSingleUse ==
  (last.op = "refresh" /\ last.replay) => last.status = 401

\* C8: of two requests that were in flight together with one refresh token,
\* valid at that time, one is answered 200 and the other 401.
RefreshRaceOneWinner ==
  \A i, j \in Requests :
    (/\ i # j
     /\ j \in reqs[i].with
     /\ reqs[i].valid \/ reqs[j].valid
     /\ reqs[i].state = "done"
     /\ reqs[j].state = "done")
      => {reqs[i].status, reqs[j].status} = {200, 401}

----
\* The client: storage, SyncService.sync and the handlers of App.

Calls == 1..MaxCalls

\* ids of crypto.randomUUID, one for every edit: no id is made twice
BuildIds == <<"r1", "r2", "r3", "r4">>

\* buildId() in the edit after n edits
buildId(n) == BuildIds[n + 1]

\* the object store of keyPath 'id' after clear() and a put of every timer:
\* of the timers of one id the last one put stays
PutAll(timers) ==
  [id \in Ids(timers) |->
     timers[CHOOSE i \in 1..Len(timers) :
              /\ timers[i].id = id
              /\ \A j \in (i + 1)..Len(timers) : timers[j].id # id]]

\* no call in the slot
NoCall ==
  [pc |-> "idle", tasks |-> <<>>, timers |-> <<>>, bearer |-> NoToken,
   resp |-> NoResult, sent |-> FALSE, blocked |-> FALSE, ret |-> "none",
   overlap |-> FALSE]

\* the calls that have a /sync request in flight
InFlight == {c \in Calls : calls[c].pc \in {"fetch", "responded"}}

\* the Authorization header of the request
Bearer == IF tokens = NoPair THEN NoToken ELSE tokens.accessToken

GuardIgnoresSyncing(onLine, busy) == ~onLine

GuardIgnoresOnLine(onLine, busy) == busy

\* !navigator.onLine || this.syncing
GuardReturnsNull(onLine, busy) == ~onLine \/ busy

\* sync(tasks, timers) up to its second await: the tasks are in localStorage,
\* the IndexedDB transaction of the timers is under way
StartSync(tasks, timers) ==
  /\ \E c \in Calls : calls[c].pc = "idle"
  /\ LET c == CHOOSE c \in Calls :
                /\ calls[c].pc = "idle"
                /\ \A d \in 1..(c - 1) : calls[d].pc # "idle"
     IN calls' = [calls EXCEPT
                    ![c] = [NoCall EXCEPT !.pc = "saving", !.tasks = tasks,
                                          !.timers = timers,
                                          !.overlap = InFlight # {}]]
  /\ localTasks' = tasks

\* persistAndSync(nextTasks, nextTimers) up to its await
persistAndSync(nextTasks, nextTimers) ==
  /\ appTasks' = nextTasks
  /\ appTimers' = nextTimers
  /\ StartSync(nextTasks, nextTimers)

addTask ==
  /\ edits < MaxEdits
  /\ edits' = edits + 1
  /\ persistAndSync(<<TaskItem(buildId(edits), FALSE, now)>> \o appTasks,
                    appTimers)
  /\ UNCHANGED <<now, serverVars, authVars, mergeVars, storeVars,
                 accountVars, online, syncing,
                 lastResult, tokens, idbTimers, timerVars>>

toggleTask(id) ==
  /\ id \in Ids(appTasks)
  /\ edits < MaxEdits
  /\ edits' = edits + 1
  /\ persistAndSync(
       [i \in 1..Len(appTasks) |->
          IF appTasks[i].id = id
          THEN [appTasks[i] EXCEPT !.completed = ~@, !.updatedAt = now]
          ELSE appTasks[i]],
       appTimers)
  /\ UNCHANGED <<now, serverVars, authVars, mergeVars, storeVars,
                 accountVars, online, syncing,
                 lastResult, tokens, idbTimers, timerVars>>

addTimerEntry ==
  /\ edits < MaxEdits
  /\ edits' = edits + 1
  /\ persistAndSync(appTasks,
                    <<TimerEntry(buildId(edits), now, now + 1)>>
                      \o appTimers)
  /\ UNCHANGED <<now, serverVars, authVars, mergeVars, storeVars,
                 accountVars, online, syncing,
                 lastResult, tokens, idbTimers, timerVars>>

\* the browser comes online: the 'online' event
handleOnline ==
  /\ ~online
  /\ online' = TRUE
  /\ StartSync(appTasks, appTimers)
  /\ UNCHANGED <<now, serverVars, authVars, mergeVars, storeVars,
                 accountVars, syncing, lastResult,
                 tokens, idbTimers, appTasks, appTimers, edits, timerVars>>

\* the browser goes offline: the 'offline' event
handleOffline ==
  /\ online
  /\ online' = FALSE
  /\ UNCHANGED <<now, serverVars, authVars, mergeVars, storeVars,
                 accountVars, syncing, lastResult,
                 tokens, localTasks, idbTimers, appTasks, appTimers, calls,
                 edits, timerVars>>

\* sync: the transaction of saveTimersToCache(timers) completes and the call
\* runs on to the guard and, past it, to the fetch
SyncGuard(c) ==
  /\ calls[c].pc = "saving"
  /\ idbTimers' = PutAll(calls[c].timers)
  /\ IF GuardReturnsNull(online, syncing)
     THEN /\ calls' = [calls EXCEPT
                         ![c] = IF InFlight # {}
                                THEN [@ EXCEPT !.pc = "idle", !.ret = "null",
                                               !.blocked = TRUE,
                                               !.overlap = FALSE]
                                ELSE NoCall]
          /\ UNCHANGED syncing
     ELSE /\ syncing' = TRUE
          /\ calls' = [calls EXCEPT
                         ![c].pc = "fetch", ![c].sent = TRUE,
                         ![c].bearer = Bearer, ![c].overlap = FALSE,
                         ![c].blocked = InFlight # {}]
  /\ UNCHANGED <<now, serverVars, authVars, mergeVars, storeVars,
                 accountVars, online, lastResult,
                 tokens, localTasks, appTasks, appTimers, edits, timerVars>>

\* the server handles the request of the call: the handler of POST /sync
SyncServe(c) ==
  LET authUser == authenticate(usersById, calls[c].bearer, now)
  IN /\ calls[c].pc = "fetch"
     /\ usersById' = SyncUsers(usersById, authUser, calls[c].tasks,
                               calls[c].timers, now)
     /\ calls' = [calls EXCEPT
                    ![c].pc = "responded",
                    ![c].resp = SyncResult(usersById, authUser, calls[c].tasks,
                                           calls[c].timers, now)]
     /\ UNCHANGED <<now, last, authVars, mergeVars, storeVars, accountVars,
                    online, syncing,
                    lastResult, tokens, localTasks, idbTimers, appTasks,
                    appTimers, edits, timerVars>>

SyncFailKeepsSyncing(c) ==
  /\ calls[c].pc \in {"fetch", "responded"}
  /\ calls' = [calls EXCEPT ![c] = NoCall]
  /\ UNCHANGED <<now, serverVars, authVars, mergeVars, storeVars,
                 accountVars, online, syncing,
                 lastResult, tokens, localTasks, idbTimers, appTasks,
                 appTimers, edits, timerVars>>

SyncFailClearsStore(c) ==
  /\ calls[c].pc \in {"fetch", "responded"}
  /\ syncing' = FALSE
  /\ localTasks' = <<>>
  /\ calls' = [calls EXCEPT ![c] = NoCall]
  /\ UNCHANGED <<now, serverVars, authVars, mergeVars, storeVars,
                 accountVars, online, lastResult,
                 tokens, idbTimers, appTasks, appTimers, edits, timerVars>>

\* sync: fetch throws or the response is not ok, before or after the server
\* has handled the request
SyncFail(c) ==
  /\ calls[c].pc \in {"fetch", "responded"}
  /\ syncing' = FALSE
  /\ calls' = [calls EXCEPT ![c] = NoCall]
  /\ UNCHANGED <<now, serverVars, authVars, mergeVars, storeVars,
                 accountVars, online, lastResult,
                 tokens, localTasks, idbTimers, appTasks, appTimers, edits,
                 timerVars>>

\* sync: the response is ok; lastResult and localStorage take the payload and
\* the transaction of saveTimersToCache(payload.timers) starts
SyncReceive(c) ==
  /\ calls[c].pc = "responded"
  /\ lastResult' = calls[c].resp
  /\ localTasks' = calls[c].resp.tasks
  /\ calls' = [calls EXCEPT ![c].pc = "savingResult"]
  /\ UNCHANGED <<now, serverVars, authVars, mergeVars, storeVars,
                 accountVars, online, syncing,
                 tokens, idbTimers, appTasks, appTimers, edits, timerVars>>

\* sync: the response is ok and localStorage.setItem of saveTasksToCache
\* throws (the quota is exceeded): lastResult has the payload, the store has
\* not; catch returns null, finally clears syncing
SyncSaveTasksFails(c) ==
  /\ calls[c].pc = "responded"
  /\ lastResult' = calls[c].resp
  /\ syncing' = FALSE
  /\ calls' = [calls EXCEPT ![c] = NoCall]
  /\ UNCHANGED <<now, serverVars, authVars, mergeVars, storeVars,
                 accountVars, online, tokens,
                 localTasks, idbTimers, appTasks, appTimers, edits,
                 timerVars>>

\* sync: the transaction of saveTimersToCache(payload.timers) fails and is
\* rolled back; catch returns null, finally clears syncing
SyncSaveTimersFails(c) ==
  /\ calls[c].pc = "savingResult"
  /\ syncing' = FALSE
  /\ calls' = [calls EXCEPT ![c] = NoCall]
  /\ UNCHANGED <<now, serverVars, authVars, mergeVars, storeVars,
                 accountVars, online, lastResult,
                 tokens, localTasks, idbTimers, appTasks, appTimers, edits,
                 timerVars>>

\* sync: the transaction completes, sync returns the payload, finally clears
\* syncing, and the caller sets the App's state from the result
SyncReturn(c) ==
  /\ calls[c].pc = "savingResult"
  /\ idbTimers' = PutAll(calls[c].resp.timers)
  /\ syncing' = FALSE
  /\ appTasks' = calls[c].resp.tasks
  /\ appTimers' = calls[c].resp.timers
  /\ calls' = [calls EXCEPT ![c] = NoCall]
  /\ UNCHANGED <<now, serverVars, authVars, mergeVars, storeVars,
                 accountVars, online, lastResult,
                 tokens, localTasks, edits, timerVars>>

ClientTick == Tick /\ UNCHANGED <<serverVars, authVars, mergeVars, storeVars,
                                  accountVars, clientVars, timerVars>>

\* a client with an empty cache, anonymous or signed in as u1
InitClient ==
  /\ now = 1
  /\ usersById = Registered
  /\ last = [op |-> "none"]
  /\ AuthIdle
  /\ MergeIdle
  /\ AccountIdle(Registered)
  /\ StoreInit
  /\ TimerInit
  /\ online = TRUE
  /\ syncing = FALSE
  /\ lastResult = NoResult
  /\ tokens \in {NoPair, TokenPair("u1", 1)}
  /\ localTasks = <<>>
  /\ idbTimers = << >>
  /\ appTasks = <<>>
  /\ appTimers = <<>>
  /\ calls = [c \in Calls |-> NoCall]
  /\ edits = 0

NextClient ==
  \/ addTask
  \/ \E id \in Range(BuildIds) : toggleTask(id)
  \/ addTimerEntry
  \/ handleOnline
  \/ handleOffline
  \/ \E c \in Calls : SyncGuard(c)
  \/ \E c \in Calls : SyncServe(c)
  \/ \E c \in Calls : SyncFail(c)
  \/ \E c \in Calls : SyncReceive(c)
  \/ \E c \in Calls : SyncReturn(c)
  \/ \E c \in Calls : SyncSaveTasksFails(c)
  \/ \E c \in Calls : SyncSaveTimersFails(c)
  \/ ClientTick

SpecClient == InitClient /\ [][NextClient]_vars

\* C9: at most one /sync request of the client is in flight, and a call that
\* reached the guard while a request was in flight has sent no request and
\* has returned null.
SyncGuardExclusive ==
  /\ Cardinality(InFlight) <= 1
  /\ \A c \in Calls :
       calls[c].blocked =>
         /\ calls[c].pc = "idle"
         /\ ~calls[c].sent
         /\ calls[c].ret = "null"

\* a call is dropped by the guard while the request of another is in flight
SyncGuardExclusiveWitness ==
  \E c, d \in Calls :
    /\ calls[c].pc = "fetch"
    /\ calls[d].blocked
    /\ calls[d].ret = "null"

\* C10: the records that a call dropped by the guard has saved are in the
\* local store and in the App's state in every later state.
DroppedSaveSurvives ==
  \A c \in Calls :
    (calls[c].pc = "idle" /\ calls[c].blocked) =>
      /\ Ids(calls[c].tasks) \subseteq Ids(localTasks)
      /\ Ids(calls[c].tasks) \subseteq Ids(appTasks)
      /\ Ids(calls[c].timers) \subseteq DOMAIN idbTimers
      /\ Ids(calls[c].timers) \subseteq Ids(appTimers)

\* the guard drops call c in this step: sync returns null without a request
Dropped(c) == calls[c].pc = "saving" /\ calls'[c].pc = "idle"

\* C11: when a call that was invoked while a request was in flight returns
\* without a request, the local store holds exactly the call's tasks and
\* timers.
DroppedCallStoreHoldsBatch ==
  [][\A c \in Calls :
       (calls[c].overlap /\ Dropped(c)) =>
         /\ localTasks' = calls[c].tasks
         /\ idbTimers' = PutAll(calls[c].timers)]_vars

----
\* The client under fair scheduling: a fetch settles and an IndexedDB
\* transaction completes or fails.

\* the calls that have passed the guard and have not returned
Attempting ==
  {c \in Calls : calls[c].pc \in {"fetch", "responded", "savingResult"}}

\* the next step of an attempt
Settle(c) ==
  \/ SyncServe(c)
  \/ SyncFail(c)
  \/ SyncReceive(c)
  \/ SyncSaveTasksFails(c)
  \/ SyncReturn(c)
  \/ SyncSaveTimersFails(c)

\* the client signed in as u1
InitClientFair == InitClient /\ tokens # NoPair

\* the steps of the client while the clock stands at one tick
NextClientFair ==
  \/ addTask
  \/ \E id \in Range(BuildIds) : toggleTask(id)
  \/ addTimerEntry
  \/ handleOnline
  \/ handleOffline
  \/ \E c \in Calls : SyncGuard(c)
  \/ \E c \in Calls : SyncServe(c)
  \/ \E c \in Calls : SyncFail(c)
  \/ \E c \in Calls : SyncReceive(c)
  \/ \E c \in Calls : SyncReturn(c)
  \/ \E c \in Calls : SyncSaveTasksFails(c)
  \/ \E c \in Calls : SyncSaveTimersFails(c)

SpecClientFair ==
  /\ InitClientFair
  /\ [][NextClientFair]_vars
  /\ \A c \in Calls : WF_vars(Settle(c))

\* C13: syncing is true only while an attempt that passed the guard has not
\* returned, and every such attempt leads to syncing being false again.
SyncReturnsToIdle ==
  /\ [](syncing <=> Attempting # {})
  /\ syncing ~> ~syncing

\* an attempt has passed the guard, the server has merged its request, the
\* response was lost and syncing is false again
SyncReturnsToIdleWitness ==
  /\ ~syncing
  /\ Attempting = {}
  /\ lastResult = NoResult
  /\ usersById["u1"].tasks # <<>>

----
\* Failure and success of an attempt.

\* call c ends in this step without a result: response not ok or fetch thrown
Failed(c) ==
  /\ c \in InFlight
  /\ calls'[c].pc = "idle"
  /\ calls[c].pc = "responded" => lastResult' = lastResult

\* no call sends a request in this step
NoSend == \A d \in Calls : calls'[d].sent => calls[d].sent

\* C14, as stated: when an attempt fails, the timers of the local store are
\* as they were after step 1 of that attempt, which wrote the call's timers
\* in the step of the guard.
FailureLeavesStepOneStore ==
  [][\A c \in Calls :
       Failed(c) => idbTimers' = PutAll(calls[c].timers)]_vars

\* C14, amended: the step in which an attempt fails leaves the local store
\* and lastResult as they were before it, ends the call and sends no request.
FailureWritesNothing ==
  [][\A c \in Calls :
       Failed(c) =>
         /\ localTasks' = localTasks
         /\ idbTimers' = idbTimers
         /\ lastResult' = lastResult
         /\ calls'[c] = NoCall
         /\ NoSend]_vars

\* the server has merged the timers of an attempt whose response was lost:
\* the attempt has failed, the local store has the timers still
FailureWritesNothingWitness ==
  /\ Attempting = {}
  /\ lastResult = NoResult
  /\ usersById["u1"].timers # <<>>
  /\ DOMAIN idbTimers = Ids(usersById["u1"].timers)

\* call c returns the payload of its response in this step
Returned(c) ==
  /\ calls[c].pc = "savingResult"
  /\ calls'[c].pc = "idle"
  /\ idbTimers' = PutAll(calls[c].resp.timers)
  /\ appTasks' = calls[c].resp.tasks
  /\ appTimers' = calls[c].resp.timers

\* C15: when a call returns the payload of a success response, the local
\* store holds the tasks and the timers of the response, and the result is
\* the response, with its message and lastSyncedAt.
SuccessOverwritesStore ==
  [][\A c \in Calls :
       Returned(c) =>
         /\ localTasks' = calls[c].resp.tasks
         /\ idbTimers' = PutAll(calls[c].resp.timers)
         /\ lastResult' = calls[c].resp]_vars

----
\* The server under requests that present every kind of token.

\* a token that jwt.verify cannot parse
Malformed == [NoToken EXCEPT !.sig = "malformed"]

\* a token signed with another secret
Forged(token) == [token EXCEPT !.sig = "forged"]

\* a token of u1 whose exp has passed
Expired(type, expiresInSeconds) ==
  [sub |-> "u1", type |-> type, iat |-> 0 - expiresInSeconds, exp |-> 0,
   sig |-> jwtSecret]

TokenTypes == {"access", "refresh"}

TtlOf(type) == IF type = "access" THEN accessTtlSeconds ELSE refreshTtlSeconds

\* no token, a malformed one, the tokens that the server signs for the user
\* u1 and would sign for an id u9 that no account has, forged tokens and
\* expired tokens
TokenUniverse ==
  {NoToken, Malformed}
    \cup {signToken(u, ty, TtlOf(ty), t) :
            u \in {"u1", "u9"}, ty \in TokenTypes, t \in 1..MaxClock}
    \cup {Forged(signToken("u1", ty, TtlOf(ty), 1)) : ty \in TokenTypes}
    \cup {Expired(ty, TtlOf(ty)) : ty \in TokenTypes}

\* bodies of at most one record
TokenBodies ==
  {[tasks |-> ts, timers |-> <<>>] : ts \in SeqsUpTo(TaskUniverse, 1)}
    \cup {[tasks |-> <<>>, timers |-> tm] : tm \in SeqsUpTo(TimerUniverse, 1)}

InitTokens ==
  /\ now = 1
  /\ usersById = Registered
  /\ last = [op |-> "none"]
  /\ AuthIdle
  /\ MergeIdle
  /\ AccountIdle(Registered)
  /\ ClientInit

\* a client posts a body to /sync with a token as the bearer
TokenSync ==
  /\ last.op = "none"
  /\ \E bearer \in TokenUniverse, b \in TokenBodies :
       Sync(bearer, b.tasks, b.timers, 1)
  /\ UNCHANGED <<now, authVars, mergeVars, storeVars, accountVars, clientVars,
                 timerVars>>

\* a client posts a token to /auth/refresh
TokenRefresh ==
  /\ last.op = "none"
  /\ \E token \in TokenUniverse : Refresh(token)
  /\ UNCHANGED <<now, reqs, handed, mergeVars, storeVars, accountVars,
                 clientVars, timerVars>>

TokenRespond ==
  /\ Respond
  /\ UNCHANGED <<now, usersById, authVars, mergeVars, storeVars, accountVars,
                 clientVars, timerVars>>

TokenTick == Tick /\ UNCHANGED <<serverVars, authVars, mergeVars, storeVars,
                                 accountVars, clientVars, timerVars>>

NextTokens == TokenSync \/ TokenRefresh \/ TokenRespond \/ TokenTick

SpecTokens == InitTokens /\ [][NextTokens]_vars

\* the bearer is missing, malformed, badly signed, expired or names no account
InvalidBearer(bearer) ==
  \/ bearer = NoToken
  \/ bearer = Malformed
  \/ bearer.sig # jwtSecret
  \/ bearer.exp <= Seconds(last.body.lastSyncedAt)
  \/ bearer.sub \notin DOMAIN last.prior

\* C16: a /sync request with an invalid bearer is answered 200 with the
\* incoming tasks and timers unchanged and the message of a local sync, and
\* leaves every account as it was.
AnonymousEcho ==
  (last.op = "sync" /\ InvalidBearer(last.bearer)) =>
    /\ last.status = 200
    /\ last.user = NoUser
    /\ last.body.tasks = last.tasks
    /\ last.body.timers = last.timers
    /\ last.body.message = "Synced locally (no authenticated user)"
    /\ usersById = last.prior

\* C17: a refresh token as the bearer of /sync gives no user context and
\* changes no account; an access token posted to /auth/refresh is answered
\* 401, with no token pair and no account changed.
TokenTypesApart ==
  /\ (last.op = "sync" /\ last.bearer.type = "refresh") =>
        /\ last.user = NoUser
        /\ last.body.message = "Synced locally (no authenticated user)"
        /\ usersById = last.prior
  /\ (last.op = "refresh" /\ last.token.type = "access") =>
        /\ last.status = 401
        /\ last.tokens = NoPair
        /\ usersById = last.prior

\* the registered refresh token of u1 was the bearer of a /sync with a task,
\* when u1 had tasks stored
TokenTypesApartWitness ==
  /\ last.op = "sync"
  /\ last.bearer \in last.prior["u1"].refreshTokens
  /\ last.tasks # <<>>
  /\ usersById["u1"].tasks # <<>>

\* C18: an /auth/refresh that is not answered 200 leaves the refreshTokens
\* of every account as they were and answers no token pair.
FailedRefreshRotatesNothing ==
  (last.op = "refresh" /\ last.status # 200) =>
    /\ \A u \in DOMAIN last.prior :
         usersById[u].refreshTokens = last.prior[u].refreshTokens
    /\ DOMAIN usersById = DOMAIN last.prior
    /\ last.tokens = NoPair

\* a consumed refresh token was presented again and refused, while the
\* account held the token of the rotation
FailedRefreshRotatesNothingWitness ==
  /\ last.op = "refresh"
  /\ last.replay
  /\ last.status = 401
  /\ usersById["u1"].refreshTokens # {}

\* C19: the refresh token of a rotation is none that the account held or
\* that was consumed before, the account holds it afterwards, and it holds
\* the presented token no longer.
RotationIssuesFreshToken ==
  (last.op = "refresh" /\ last.status = 200) =>
    LET u == last.token.sub
        new == last.tokens.refreshToken
    IN /\ new \notin last.prior[u].refreshTokens
       /\ new \notin rotated \ {last.token}
       /\ new # last.token
       /\ new \in usersById[u].refreshTokens
       /\ last.token \notin usersById[u].refreshTokens

----
\* The server under concurrent /sync requests of the devices of one user.

\* no request of the device
NoSyncRequest ==
  [state |-> "idle", tasks |-> <<>>, timers |-> <<>>,
   seen |-> [tasks |-> <<>>, timers |-> <<>>], resp |-> NoResult]

\* bodies of at most one record, with its timestamps
DeviceBodies ==
  {b \in TokenBodies :
     safeTasks(b.tasks, 0) = b.tasks /\ safeTimers(b.timers, 0) = b.timers}

StoreReadAtArrival(seen, current) == seen

\* authUser.tasks, authUser.timers as the handler reads them for the merge:
\* in the turn in which it assigns the merged collections
StoreRead(seen, current) == current

InitDevices ==
  /\ now = 1
  /\ usersById = Registered
  /\ last = [op |-> "none"]
  /\ reqs = [i \in Requests |-> NoSyncRequest]
  /\ handed = {TokenPair("u1", 1)}
  /\ rotated = {}
  /\ MergeIdle
  /\ AccountIdle(Registered)
  /\ ClientInit

\* a device of u1 posts a body to /sync; the request arrives at the server
DeviceSend(i) ==
  /\ reqs[i].state = "idle"
  /\ \E b \in DeviceBodies :
       reqs' = [reqs EXCEPT
                  ![i].state = "sent", ![i].tasks = b.tasks,
                  ![i].timers = b.timers,
                  ![i].seen = [tasks |-> usersById["u1"].tasks,
                               timers |-> usersById["u1"].timers]]
  /\ UNCHANGED <<now, serverVars, handed, rotated, mergeVars, storeVars,
                 accountVars, clientVars, timerVars>>

\* the server runs authenticate and the handler on the request
DeviceHandle(i) ==
  LET bearer == TokenPair("u1", 1).accessToken
      authUser == authenticate(usersById, bearer, now)
      users == [usersById EXCEPT
                  ![authUser].tasks = StoreRead(reqs[i].seen.tasks, @),
                  ![authUser].timers = StoreRead(reqs[i].seen.timers, @)]
  IN /\ reqs[i].state = "sent"
     /\ usersById' = SyncUsers(users, authUser, reqs[i].tasks,
                               reqs[i].timers, now)
     /\ reqs' = [reqs EXCEPT
                   ![i].state = "done",
                   ![i].resp = SyncResult(users, authUser, reqs[i].tasks,
                                          reqs[i].timers, now)]
     /\ UNCHANGED <<now, last, handed, rotated, mergeVars, storeVars,
                    accountVars, clientVars, timerVars>>

DeviceTick == Tick /\ UNCHANGED <<serverVars, authVars, mergeVars, storeVars,
                                  accountVars, clientVars, timerVars>>

NextDevices ==
  \/ \E i \in Requests : DeviceSend(i)
  \/ \E i \in Requests : DeviceHandle(i)
  \/ DeviceTick

SpecDevices == InitDevices /\ [][NextDevices]_vars

\* the requests that the server has answered
Done == {i \in Requests : reqs[i].state = "done"}

\* the orders of a set of requests
Orders(D) ==
  {o \in [1..Cardinality(D) -> D] :
     \A j, k \in 1..Cardinality(D) : j # k => o[j] # o[k]}

\* the merges of the requests applied one after another to a collection
RECURSIVE ApplyInOrder(_, _, _)
ApplyInOrder(stored, order, c) ==
  IF order = <<>> THEN stored
  ELSE ApplyInOrder(mergeById(stored, reqs[Head(order)][c]), Tail(order), c)

\* C20: the collections of the user are those of the answered requests'
\* merges applied one after another in some order, and every record that a
\* request's response holds is stored, in that or in a newer revision.
SyncsSerialize ==
  /\ \E o \in Orders(Done) :
       \A c \in Collections :
         usersById["u1"][c] = ApplyInOrder(<<>>, o, c)
  /\ \A i \in Done : \A c \in Collections :
       \A r \in Range(reqs[i].resp[c]) :
         /\ r.id \in Ids(usersById["u1"][c])
         /\ RecencyKey(RecordOf(usersById["u1"][c], r.id)) >= RecencyKey(r)

\* two requests that were at the server together are answered, and the
\* second handler merged into what the first had stored
SyncsSerializeWitness ==
  \E i, j \in Done :
    /\ i # j
    /\ reqs[i].seen = reqs[j].seen
    /\ reqs[i].tasks # <<>>
    /\ reqs[j].tasks # <<>>
    /\ Ids(reqs[i].tasks) # Ids(reqs[j].tasks)
    /\ Len(usersById["u1"].tasks) = 2

----
\* The server: accounts. POST /auth/register and POST /auth/login, each with
\* one await (bcrypt) at which the handlers of other requests run.

\* accounts that the model lets clients create
MaxUsers == 2
\* handlers of /auth/register and /auth/login that wait at their await at one
\* time
MaxHandlers == 2
\* last calendar day of the clock
LastDay == 3
\* token pairs that the responses give to clients
MaxPairs == 3

\* clock ticks in one calendar day
TicksPerDay == 2

\* toISOString().slice(0, 10): the UTC calendar date of an instant
Day(t) == t \div TicksPerDay

Max(a, b) == IF a >= b THEN a ELSE b

\* the ids that randomUUID() gives, in the order of the calls
UserIds == <<"u1", "u2", "u3", "u4">>

\* randomUUID(): an id that no account has (accounts are never removed)
randomUUID(users) == UserIds[Cardinality(DOMAIN users) + 1]

\* the changes of the server zone's UTC offset between one local day and the
\* next, in ticks: none (a zone without daylight saving time, UTC), clocks
\* set back, clocks set forward
ZoneShifts == {0, 1, -1}

\* yesterday.setDate(yesterday.getDate() - 1); yesterday.toISOString(): the
\* same local time on the local day before, then its UTC date. The instant
\* is one day before t, and the zone's offset change further
Yesterday(t, shift) == Day(t - TicksPerDay - shift)

updateStreakLongestIsCurrent(user, t, shift) ==
  LET currentStreak == IF Day(user.lastCheckIn) = Yesterday(t, shift)
                       THEN user.currentStreak + 1
                       ELSE 1
  IN IF Day(t) = Day(user.lastCheckIn) THEN user
     ELSE [user EXCEPT !.currentStreak = currentStreak,
                       !.longestStreak = currentStreak,
                       !.lastCheckIn = t]

\* updateStreak(user), with the clock at t
updateStreak(user, t, shift) ==
  LET today == Day(t)
      lastCheckIn == Day(user.lastCheckIn)
      yesterdayStr == Yesterday(t, shift)
      currentStreak == IF lastCheckIn = yesterdayStr
                       THEN user.currentStreak + 1
                       ELSE 1
  IN IF today = lastCheckIn THEN user
     ELSE [user EXCEPT !.currentStreak = currentStreak,
                       !.longestStreak = Max(@, currentStreak),
                       !.lastCheckIn = t]

Handlers == 1..MaxHandlers

\* no UserProfile, for the body of an ApiError
NoProfile ==
  [id |-> NoUser, email |-> "", displayName |-> "", currentStreak |-> 0,
   longestStreak |-> 0, lastCheckIn |-> Nil]

\* res.status(status).json({ message })
ApiError(status, message) ==
  [status |-> status, user |-> NoProfile, tokens |-> NoPair,
   message |-> message]

\* res.status(status).json({ user, tokens, message })
AuthResponse(status, user, pair, message) ==
  [status |-> status, user |-> buildProfile(user), tokens |-> pair,
   message |-> message]

UnknownEmailSaysSo == ApiError(401, "No account with that email.")

\* the response when usersByEmail has no user for the email
UnknownEmail == ApiError(401, "Invalid credentials.")

\* the response when bcrypt.compare gives false
WrongPassword == ApiError(401, "Invalid credentials.")

\* no request in the slot. A request has the body fields, `found`: the
\* account that usersByEmail had for the email when the request arrived,
\* `user`: the account the handler works on, and the response once it is sent
NoHandler ==
  [op |-> "none", pc |-> "idle", email |-> "", password |-> "",
   displayName |-> "", found |-> NoUser, user |-> NoUser,
   response |-> ApiError(0, "")]

\* the handler sends the response
Answer(handler, response) ==
  [handler EXCEPT !.pc = "done", !.response = response]

\* the bodies of the requests to /auth/register
RegisterRequests ==
  [email : {"", "e1", "e2"}, password : {"p1"}, displayName : {"n"}]
    \cup [email : {"e1"}, password : {"p1"}, displayName : {""}]

\* the bodies of the requests to /auth/login
LoginRequests ==
  [email : {"e1", "e2"}, password : {"p1", "p2"}]
    \cup [email : {"e1"}, password : {""}]

\* the handlers that wait for bcrypt
Awaiting(op) == {i \in Handlers : handlers[i].op = op /\ handlers[i].pc = "await"}

\* the requests that the server has not answered or whose response is on its
\* way
Open == {i \in Handlers : handlers[i] # NoHandler}

\* usersByEmail.get(email), NoUser for undefined
ByEmail(byEmail, email) ==
  IF email \in DOMAIN byEmail THEN byEmail[email] ELSE NoUser

\* POST /auth/register up to the await: 400, 409, or on to bcrypt.hash
RegisterStart(i) ==
  /\ handlers[i] = NoHandler
  /\ Cardinality(DOMAIN usersById) + Cardinality(Awaiting("register")) < MaxUsers
  /\ Cardinality(handed) + Cardinality(Open) < MaxPairs
  /\ \E body \in RegisterRequests :
       LET request == [NoHandler EXCEPT
                         !.op = "register", !.email = body.email,
                         !.password = body.password,
                         !.displayName = body.displayName,
                         !.found = ByEmail(usersByEmail, body.email)]
       IN handlers' =
            [handlers EXCEPT ![i] =
               IF body.email = "" \/ body.password = "" \/ body.displayName = ""
               THEN Answer(request,
                      ApiError(400, "Email, password, and display name are required."))
               ELSE IF body.email \in DOMAIN usersByEmail
               THEN Answer(request,
                      ApiError(409, "A user with that email already exists."))
               ELSE [request EXCEPT !.pc = "await"]]
  /\ UNCHANGED <<now, serverVars, usersByEmail, sIn, sOut, authVars,
                 mergeVars, storeVars,
                 clientVars, timerVars>>

\* usersById after usersById.set(user.id, user) and issueTokens(user.id)
RegisterUsers(users, id, email, password, t) ==
  issueTokens([u \in DOMAIN users \cup {id} |->
                 IF u = id THEN NewUser(id, email, password, t) ELSE users[u]],
              id, t)

\* usersByEmail after usersByEmail.set(email, user)
RegisterByEmail(byEmail, email, id) ==
  [e \in DOMAIN byEmail \cup {email} |-> IF e = email THEN id ELSE byEmail[e]]

\* POST /auth/register from the await to the response
RegisterFinish(i) ==
  /\ handlers[i].op = "register"
  /\ handlers[i].pc = "await"
  /\ LET id == randomUUID(usersById)
         users == RegisterUsers(usersById, id, handlers[i].email,
                                handlers[i].password, now)
     IN /\ usersById' = users
        /\ usersByEmail' = RegisterByEmail(usersByEmail, handlers[i].email, id)
        /\ handlers' =
             [handlers EXCEPT ![i] =
                Answer([@ EXCEPT !.user = id],
                       AuthResponse(201, users[id], TokenPair(id, now),
                                    "Registration successful"))]
  /\ UNCHANGED <<now, last, sIn, sOut, authVars, mergeVars, storeVars,
                 clientVars, timerVars>>

\* POST /auth/login up to the await: 400, 401, or on to bcrypt.compare with
\* the user that usersByEmail gave
LoginStart(i) ==
  /\ handlers[i] = NoHandler
  /\ Cardinality(handed) + Cardinality(Open) < MaxPairs
  /\ \E body \in LoginRequests :
       LET user == ByEmail(usersByEmail, body.email)
           request == [NoHandler EXCEPT
                         !.op = "login", !.email = body.email,
                         !.password = body.password,
                         !.found = user, !.user = user]
       IN handlers' =
            [handlers EXCEPT ![i] =
               IF body.email = "" \/ body.password = ""
               THEN Answer(request,
                      ApiError(400, "Email and password are required."))
               ELSE IF user = NoUser
               THEN Answer(request, UnknownEmail)
               ELSE [request EXCEPT !.pc = "await"]]
  /\ UNCHANGED <<now, serverVars, usersByEmail, sIn, sOut, authVars,
                 mergeVars, storeVars,
                 clientVars, timerVars>>

LoginUsersStreakEachLogin(users, id, t, shift) ==
  issueTokens([users EXCEPT
                 ![id] = [@ EXCEPT !.currentStreak = @ + 1,
                                   !.longestStreak =
                                     Max(@, users[id].currentStreak + 1),
                                   !.lastCheckIn = t]],
              id, t)

\* usersById after updateStreak(user) and issueTokens(user.id)
LoginUsers(users, id, t, shift) ==
  issueTokens([users EXCEPT ![id] = updateStreak(@, t, shift)], id, t)

\* POST /auth/login from the await to the response
LoginFinish(i) ==
  /\ handlers[i].op = "login"
  /\ handlers[i].pc = "await"
  /\ LET id == handlers[i].user
         isValid == bcryptCompare(handlers[i].password,
                                  usersById[id].passwordHash)
     IN IF ~isValid
        THEN /\ handlers' =
                  [handlers EXCEPT ![i] = Answer(@, WrongPassword)]
             /\ UNCHANGED usersById
        ELSE \E shift \in ZoneShifts :
               LET users == LoginUsers(usersById, id, now, shift)
               IN /\ usersById' = users
                  /\ handlers' =
                       [handlers EXCEPT ![i] =
                          Answer(@, AuthResponse(200, users[id],
                                                 TokenPair(id, now),
                                                 "Login successful"))]
  /\ UNCHANGED <<now, last, usersByEmail, sIn, sOut, authVars, mergeVars,
                 storeVars,
                 clientVars, timerVars>>

\* the client gets the response and keeps the tokens of a 200 or a 201
AuthReceive(i) ==
  /\ handlers[i].pc = "done"
  /\ handed' = IF handlers[i].response.tokens # NoPair
               THEN handed \cup {handlers[i].response.tokens}
               ELSE handed
  /\ handlers' = [handlers EXCEPT ![i] = NoHandler]
  /\ UNCHANGED <<now, serverVars, usersByEmail, sIn, sOut, reqs, rotated,
                 mergeVars, storeVars, clientVars, timerVars>>

\* POST /auth/refresh with a token that a response gave to a client
AccountRefresh ==
  /\ \E token \in Presentable :
       LET pair == RefreshTokens(usersById, token, now)
       IN /\ usersById' = RefreshUsers(usersById, token, now)
          /\ IF RefreshStatus(usersById, token, now) = 200
             THEN /\ Cardinality(handed \cup {pair}) + Cardinality(Open) <= MaxPairs
                  /\ handed' = handed \cup {pair}
             ELSE UNCHANGED handed
  /\ UNCHANGED <<now, last, reqs, rotated, mergeVars, storeVars, accountVars,
                 clientVars, timerVars>>

\* the bodies of the /sync requests to the server with accounts
AccountBodies ==
  [tasks : {<<TaskItem("t1", FALSE, 1)>>}, timers : {<<>>}]

\* POST /sync, anonymous or with a token that a response gave to a client
AccountSync ==
  /\ \E b \in AccountBodies, bearer \in {NoToken} \cup Presentable :
       usersById' = SyncUsers(usersById, authenticate(usersById, bearer, now),
                              b.tasks, b.timers, now)
  /\ UNCHANGED <<now, last, authVars, mergeVars, storeVars, accountVars,
                 clientVars, timerVars>>

\* time passes, to the end of the last day
AccountTick ==
  /\ now + 1 < (LastDay + 1) * TicksPerDay
  /\ now' = now + 1
  /\ UNCHANGED <<serverVars, authVars, mergeVars, storeVars, accountVars,
                 clientVars, timerVars>>

\* the server after construction, no request yet
InitAccounts ==
  /\ now = 1
  /\ ServerInit
  /\ usersByEmail = << >>
  /\ handlers = [i \in Handlers |-> NoHandler]
  /\ StreakIdle
  /\ AuthIdle
  /\ MergeIdle
  /\ ClientInit

NextAccounts ==
  \/ \E i \in Handlers : RegisterStart(i)
  \/ \E i \in Handlers : RegisterFinish(i)
  \/ \E i \in Handlers : LoginStart(i)
  \/ \E i \in Handlers : LoginFinish(i)
  \/ \E i \in Handlers : AuthReceive(i)
  \/ AccountRefresh
  \/ AccountSync
  \/ AccountTick

SpecAccounts == InitAccounts /\ [][NextAccounts]_vars

----
\* Accounts and emails.

\* the accounts with this email whose access token, as a response gave it to
\* a client, /sync accepts
ValidAccounts(email) ==
  {u \in DOMAIN usersById :
     /\ usersById[u].email = email
     /\ \E pair \in handed : authenticate(usersById, pair.accessToken, now) = u}

\* the answered registrations with every field, for an email that had an
\* account on arrival
Duplicate ==
  {i \in Handlers : /\ handlers[i].op = "register"
                    /\ handlers[i].pc = "done"
                    /\ handlers[i].password # ""
                    /\ handlers[i].displayName # ""
                    /\ handlers[i].found # NoUser}

\* C21: email is a unique key of the accounts. Whatever the interleaving
\* of the /auth/register requests, at most one account with a given email
\* exists and holds valid tokens; a registration for an email that has an
\* account is answered 409 and creates no account.
EmailUnique ==
  /\ \A u \in DOMAIN usersById :
       Cardinality(ValidAccounts(usersById[u].email)) <= 1
  /\ \A i \in Duplicate :
       /\ handlers[i].response.status = 409
       /\ handlers[i].user = NoUser

\* C33: in every state of the server, under any interleaving of the
\* /auth/register requests, usersByEmail and usersById hold the same
\* accounts: every account of usersById is the value of usersByEmail at its
\* own email, and every value of usersByEmail is an account of usersById
\* with that email.
IndexesConsistent ==
  /\ \A u \in DOMAIN usersById :
       ByEmail(usersByEmail, usersById[u].email) = u
  /\ \A e \in DOMAIN usersByEmail :
       /\ usersByEmail[e] \in DOMAIN usersById
       /\ usersById[usersByEmail[e]].email = e

\* what a request of one user must leave alone in every other account
Owned(user) ==
  <<user.tasks, user.timers, user.refreshTokens, user.currentStreak,
    user.longestStreak, user.lastCheckIn>>

\* the step is the /sync or /auth/refresh handler run with this token
HandledWith(token) ==
  \/ usersById' = RefreshUsers(usersById, token, now)
  \/ \E b \in AccountBodies :
       usersById' = SyncUsers(usersById, authenticate(usersById, token, now),
                              b.tasks, b.timers, now)

\* C34: every token in an account's refreshTokens has that account as its
\* subject, and a /sync or /auth/refresh step that changes an account A is a
\* request with a token of subject A and leaves the tasks, timers,
\* refreshTokens and streak fields of every other account as they were.
UserIsolation ==
  /\ [](\A u \in DOMAIN usersById :
          \A token \in usersById[u].refreshTokens : token.sub = u)
  /\ [][handlers' = handlers =>
          \A a \in DOMAIN usersById :
            Owned(usersById'[a]) # Owned(usersById[a]) =>
              /\ \E token \in Presentable : token.sub = a /\ HandledWith(token)
              /\ \A b \in DOMAIN usersById \ {a} :
                   Owned(usersById'[b]) = Owned(usersById[b])]_vars

\* two accounts with their own emails: one has synced a task and rotated
\* the refresh token of its registration, the other holds no task and still
\* holds the refresh token of its registration
UserIsolationWitness ==
  \E a, b \in DOMAIN usersById :
    /\ usersById[a].email # usersById[b].email
    /\ usersById[a].tasks # <<>>
    /\ usersById[b].tasks = <<>>
    /\ \E p \in handed :
         /\ p.refreshToken.sub = a
         /\ p.refreshToken \notin usersById[a].refreshTokens
    /\ \E p \in handed :
         /\ p.refreshToken.sub = b
         /\ usersById[b].refreshTokens = {p.refreshToken}

----
\* The streak update as a function of the user, the clock and the zone.

\* the instants of the calendar, from day 0 to the last day
Instants == 0..((LastDay + 1) * TicksPerDay - 1)

\* a user with streak fields as registrations and logins leave them, and a
\* clock that may have been set since lastCheckIn was written
StreakInit ==
  /\ sIn \in {i \in [currentStreak : 1..(LastDay + 1),
                     longestStreak : 1..(LastDay + 1),
                     lastCheckIn : Instants, clock : Instants,
                     shift : ZoneShifts] :
                i.longestStreak >= i.currentStreak}
  /\ sOut = [pc |-> "start", currentStreak |-> 1, longestStreak |-> 1,
             lastCheckIn |-> 1]

\* the user of the update under test
StreakUser ==
  [NewUser("u1", "e1", "p1", sIn.lastCheckIn) EXCEPT
     !.currentStreak = sIn.currentStreak,
     !.longestStreak = sIn.longestStreak]

StreakApply ==
  /\ sOut.pc = "start"
  /\ LET user == updateStreak(StreakUser, sIn.clock, sIn.shift)
     IN sOut' = [pc |-> "done", currentStreak |-> user.currentStreak,
                 longestStreak |-> user.longestStreak,
                 lastCheckIn |-> user.lastCheckIn]
  /\ UNCHANGED <<sIn, now, serverVars, usersByEmail, handlers, authVars,
                 mergeVars, storeVars, clientVars, timerVars>>

InitStreak ==
  /\ StreakInit /\ now = 1 /\ ServerInit /\ AuthIdle /\ MergeIdle /\ ClientInit
  /\ usersByEmail = << >>
  /\ handlers = << >>

NextStreak == StreakApply

SpecStreak == InitStreak /\ [][NextStreak]_vars

\* C22: the streak update compares the UTC calendar date of now with that
\* of lastCheckIn. Same date: currentStreak, longestStreak and lastCheckIn
\* stay. Now one day after lastCheckIn: currentStreak grows by 1. Any
\* other case (two or more days later, or lastCheckIn later than now):
\* currentStreak is 1. Whenever the date differs, lastCheckIn is now.
StreakByUTCDate ==
  sOut.pc = "done" =>
    LET today == Day(sIn.clock)
        lastDay == Day(sIn.lastCheckIn)
    IN /\ today = lastDay =>
            /\ sOut.currentStreak = sIn.currentStreak
            /\ sOut.longestStreak = sIn.longestStreak
            /\ sOut.lastCheckIn = sIn.lastCheckIn
       /\ today = lastDay + 1 => sOut.currentStreak = sIn.currentStreak + 1
       /\ today \notin {lastDay, lastDay + 1} => sOut.currentStreak = 1
       /\ today # lastDay => sOut.lastCheckIn = sIn.clock

----
\* Streaks of the accounts.

\* C23: in every reachable state of the server every user has
\* longestStreak >= currentStreak >= 1, and no registration, login,
\* refresh or sync ever lowers a user's longestStreak.
StreakBounds ==
  /\ [](\A u \in DOMAIN usersById :
          /\ usersById[u].longestStreak >= usersById[u].currentStreak
          /\ usersById[u].currentStreak >= 1)
  /\ [][\A u \in DOMAIN usersById :
          /\ u \in DOMAIN usersById'
          /\ usersById'[u].longestStreak >= usersById[u].longestStreak]_vars

\* a streak that grew and was lost: the longest streak stays
StreakBoundsWitness ==
  \E u \in DOMAIN usersById :
    /\ usersById[u].longestStreak >= 2
    /\ usersById[u].currentStreak = 1
    /\ usersById[u].tasks # <<>>

\* the successful logins whose responses are on their way
LoggedIn ==
  {i \in Handlers : /\ handlers[i].op = "login"
                    /\ handlers[i].pc = "done"
                    /\ handlers[i].response.status = 200}

\* C24: successful logins of one user on one calendar day, whether their
\* handlers overlap or not, change currentStreak at most once for that
\* day: the responses to two of them carry the same currentStreak.
OneStreakChangePerDay ==
  \A i, j \in LoggedIn :
    /\ handlers[i].user = handlers[j].user
    /\ Day(handlers[i].response.tokens.issuedAt) =
         Day(handlers[j].response.tokens.issuedAt)
    => handlers[i].response.user.currentStreak =
         handlers[j].response.user.currentStreak

\* two logins of a user on the day the streak grew
OneStreakChangePerDayWitness ==
  \E i, j \in LoggedIn :
    /\ i # j
    /\ handlers[i].user = handlers[j].user
    /\ Day(handlers[i].response.tokens.issuedAt) =
         Day(handlers[j].response.tokens.issuedAt)
    /\ handlers[i].response.user.currentStreak = 2
    /\ Day(handlers[i].response.user.lastCheckIn) =
         Day(handlers[i].response.tokens.issuedAt)

\* the streak fields of a user
Streak(user) ==
  <<user.currentStreak, user.longestStreak, user.lastCheckIn>>

\* the step is the second half of a login of u that is answered 200
LoginSucceeds(u) ==
  \E i \in Handlers :
    /\ handlers[i].op = "login"
    /\ handlers[i].pc = "await"
    /\ handlers[i].user = u
    /\ handlers'[i].pc = "done"
    /\ handlers'[i].response.status = 200

\* C25: only a successful login changes streak fields. Registrations
\* (answered 201 or rejected), refreshes, syncs and failed logins leave
\* currentStreak, longestStreak and lastCheckIn of every existing user as
\* they were.
StreakChangesOnlyAtLogin ==
  [][\A u \in DOMAIN usersById :
       /\ u \in DOMAIN usersById'
       /\ Streak(usersById'[u]) # Streak(usersById[u]) => LoginSucceeds(u)]_vars

\* a user whose streak fields are those of the registration, after a sync,
\* a refresh on a later day and a rejected registration for the same email
StreakChangesOnlyAtLoginWitness ==
  \E u \in DOMAIN usersById :
    /\ Streak(usersById[u]) = <<1, 1, 1>>
    /\ usersById[u].tasks # <<>>
    /\ \E pair \in handed :
         /\ pair.accessToken.sub = u
         /\ Day(pair.issuedAt) > Day(usersById[u].lastCheckIn)
    /\ \E i \in Duplicate : handlers[i].found = u

----
\* What a failed login tells.

\* the logins answered 401
Rejected ==
  {i \in Handlers : /\ handlers[i].op = "login"
                    /\ handlers[i].pc = "done"
                    /\ handlers[i].response.status = 401}

\* C27: a failed login does not tell which field was wrong. The 401 to a
\* login with an email that has no account is, in status and body, the 401
\* to a login with a registered email and a wrong password, for any
\* passwords.
LoginFailuresAlike ==
  \A i, j \in Rejected :
    /\ handlers[i].found = NoUser
    /\ handlers[j].found # NoUser
    => handlers[i].response = handlers[j].response

\* both kinds of failure answered, with the same and with different passwords
LoginFailuresAlikeWitness ==
  \E i, j \in Rejected :
    /\ handlers[i].found = NoUser
    /\ handlers[j].found # NoUser
    /\ handlers[i].password = handlers[j].password
    /\ ~bcryptCompare(handlers[j].password,
                      usersById[handlers[j].found].passwordHash)

----
\* The client: the Durable Local Store (storage.ts) on its own, with a
\* browser whose storage can be damaged or refused.

\* JSON.stringify(tasks): the text of an array, which JSON.parse gives back
JSONstringify(tasks) == [kind |-> "array", value |-> tasks]

\* an item that is no JSON text: JSON.parse throws
Garbage == [kind |-> "garbage", value |-> <<>>]

\* an item that is the JSON text of a value that is no array
NotArray == [kind |-> "object", value |-> <<>>]

\* the browser refuses the access: localStorage.getItem and setItem throw
Denied == [kind |-> "denied", value |-> <<>>]

\* the database with the object store 'timers': key -> record
OpenDb(records) == [kind |-> "open", records |-> records]

\* the database cannot be opened: indexedDB.open() fires onerror
Broken == [kind |-> "broken", records |-> << >>]

\* localStorage.setItem(TASKS_KEY, JSON.stringify(tasks))
saveTasksToCache(item, tasks) ==
  IF item.kind = "denied"
  THEN [outcome |-> "threw", item |-> item]
  ELSE [outcome |-> "returned", item |-> JSONstringify(tasks)]

\* loadTasksFromCache()
loadTasksFromCache(item) ==
  IF item.kind = "denied" THEN [outcome |-> "threw", tasks |-> <<>>]
  ELSE IF item.kind = "null" THEN [outcome |-> "returned", tasks |-> <<>>]
  ELSE IF item.kind = "garbage" THEN [outcome |-> "returned", tasks |-> <<>>]
  ELSE IF item.kind = "array"
  THEN [outcome |-> "returned", tasks |-> item.value]
  ELSE [outcome |-> "returned", tasks |-> <<>>]

\* openTimerDb(): the database after the open, created with its object store
\* when there was none
openTimerDb(db) ==
  IF db.kind = "none" THEN OpenDb(<< >>) ELSE db

PutOver(records, timers) ==
  [id \in DOMAIN records \cup Ids(timers) |->
     IF id \in Ids(timers) THEN PutAll(timers)[id] ELSE records[id]]

\* the object store after store.clear() and store.put(timer) of every timer
ClearAndPut(records, timers) == PutAll(timers)

\* saveTimersToCache(timers): one readwrite transaction
saveTimersToCache(db, timers) ==
  IF db.kind = "broken"
  THEN [outcome |-> "rejected", db |-> db]
  ELSE [outcome |-> "resolved",
        db |-> OpenDb(ClearAndPut(openTimerDb(db).records, timers))]

\* loadTimersFromCache(): store.getAll() in a readonly transaction
loadTimersFromCache(db) ==
  IF db.kind = "broken"
  THEN [outcome |-> "rejected", timers |-> << >>]
  ELSE [outcome |-> "resolved", timers |-> openTimerDb(db).records]

\* the arrays that the client saves: records of distinct ids
StoreTasks ==
  {<<>>, <<TaskItem("t1", FALSE, 1)>>,
   <<TaskItem("t2", FALSE, 1), TaskItem("t1", TRUE, 2)>>}

StoreTimers ==
  {<<>>, <<TimerEntry("m1", 1, 2)>>,
   <<TimerEntry("m2", 2, Nil), TimerEntry("m1", 1, 2)>>}

StoreSaveTasks ==
  /\ \E tasks \in StoreTasks :
       LET result == saveTasksToCache(disk.tasks, tasks)
       IN /\ disk' = [disk EXCEPT !.tasks = result.item]
          /\ saved' = IF result.outcome = "returned"
                      THEN [saved EXCEPT !.tasks = tasks]
                      ELSE saved
  /\ loaded' = NotLoaded
  /\ UNCHANGED <<now, serverVars, authVars, mergeVars, accountVars, clientVars,
                 timerVars>>

StoreSaveTimers ==
  /\ \E timers \in StoreTimers :
       LET result == saveTimersToCache(disk.timers, timers)
       IN /\ disk' = [disk EXCEPT !.timers = result.db]
          /\ saved' = IF result.outcome = "resolved"
                      THEN [saved EXCEPT !.timers = timers]
                      ELSE saved
  /\ loaded' = NotLoaded
  /\ UNCHANGED <<now, serverVars, authVars, mergeVars, accountVars, clientVars,
                 timerVars>>

\* the item is damaged or the access to localStorage is refused
StoreDamageTasks ==
  /\ disk.tasks.kind # "denied"
  /\ \E item \in {Garbage, NotArray, Denied} :
       disk' = [disk EXCEPT !.tasks = item]
  /\ loaded' = NotLoaded
  /\ UNCHANGED <<saved, now, serverVars, authVars, mergeVars, accountVars,
                 clientVars, timerVars>>

\* the database becomes unreadable
StoreDamageTimers ==
  /\ disk.timers.kind # "broken"
  /\ disk' = [disk EXCEPT !.timers = Broken]
  /\ loaded' = NotLoaded
  /\ UNCHANGED <<saved, now, serverVars, authVars, mergeVars, accountVars,
                 clientVars, timerVars>>

StoreLoadTasks ==
  /\ LET result == loadTasksFromCache(disk.tasks)
     IN loaded' = [op |-> "tasks", outcome |-> result.outcome,
                   tasks |-> result.tasks, timers |-> << >>]
  /\ UNCHANGED <<disk, saved, now, serverVars, authVars, mergeVars,
                 accountVars, clientVars, timerVars>>

StoreLoadTimers ==
  /\ LET result == loadTimersFromCache(disk.timers)
     IN /\ loaded' = [op |-> "timers", outcome |-> result.outcome,
                      tasks |-> <<>>, timers |-> result.timers]
        /\ disk' = IF result.outcome = "resolved"
                   THEN [disk EXCEPT !.timers = openTimerDb(@)]
                   ELSE disk
  /\ UNCHANGED <<saved, now, serverVars, authVars, mergeVars, accountVars,
                 clientVars, timerVars>>

\* SyncService.hydrateFromCache(): loadTasksFromCache() is called first and
\* in the caller's turn; Promise.all rejects when loadTimersFromCache does
hydrateFromCache ==
  /\ LET tasks == loadTasksFromCache(disk.tasks)
         timers == loadTimersFromCache(disk.timers)
     IN IF tasks.outcome = "threw"
        THEN /\ loaded' = [op |-> "hydrate", outcome |-> "rejected",
                           tasks |-> <<>>, timers |-> << >>]
             /\ UNCHANGED disk
        ELSE IF timers.outcome = "rejected"
        THEN /\ loaded' = [op |-> "hydrate", outcome |-> "rejected",
                           tasks |-> <<>>, timers |-> << >>]
             /\ UNCHANGED disk
        ELSE /\ loaded' = [op |-> "hydrate", outcome |-> "resolved",
                           tasks |-> tasks.tasks, timers |-> timers.timers]
             /\ disk' = [disk EXCEPT !.timers = openTimerDb(@)]
  /\ UNCHANGED <<saved, now, serverVars, authVars, mergeVars, accountVars,
                 clientVars, timerVars>>

InitStore ==
  /\ now = 1 /\ ServerInit /\ AuthIdle /\ MergeIdle /\ AccountIdle(<< >>)
  /\ ClientInit

NextStore ==
  \/ StoreSaveTasks
  \/ StoreSaveTimers
  \/ StoreDamageTasks
  \/ StoreDamageTimers
  \/ StoreLoadTasks
  \/ StoreLoadTimers
  \/ hydrateFromCache

SpecStore == InitStore /\ [][NextStore]_vars

\* the persisted tasks are as the last save left them
TasksIntact == disk.tasks.kind \in {"null", "array"}

\* the persisted timers are as the last save left them
TimersIntact == disk.timers.kind \in {"none", "open"}

\* C26: a load from the Durable Local Store gives the set most recently
\* saved to the collection, the empty set if nothing was ever saved, and the
\* empty set, not an error or a rejected promise, if the persisted data is
\* corrupt or unreadable; for the tasks and for the timers.
LoadGivesSavedOrEmpty ==
  /\ loaded.op \in {"tasks", "hydrate"} =>
       /\ loaded.outcome \in {"returned", "resolved"}
       /\ Range(loaded.tasks) =
            IF TasksIntact THEN Range(saved.tasks) ELSE {}
  /\ loaded.op \in {"timers", "hydrate"} =>
       /\ loaded.outcome = "resolved"
       /\ {loaded.timers[id] : id \in DOMAIN loaded.timers} =
            IF TimersIntact THEN Range(saved.timers) ELSE {}

\* the persisted records of the timers collection
PersistedTimers == {disk.timers.records[id] : id \in DOMAIN disk.timers.records}

\* C30: the two local collections are never mixed, and a save replaces the
\* whole collection. The persisted tasks are exactly the array of the last
\* save of tasks and the persisted timers exactly the set of the last save
\* of timers, whatever was persisted before; a save of tasks leaves the
\* persisted timers as they were and a save of timers leaves the persisted
\* tasks as they were.
CollectionsApart ==
  /\ [](/\ disk.tasks.kind = "array" => disk.tasks.value = saved.tasks
        /\ disk.timers.kind = "open" =>
             /\ PersistedTimers = Range(saved.timers)
             /\ DOMAIN disk.timers.records = Ids(saved.timers))
  /\ [][/\ saved'.tasks # saved.tasks => disk'.timers = disk.timers
        /\ saved'.timers # saved.timers => disk'.tasks = disk.tasks]_vars

\* a save of one timer after a save of two, with two tasks persisted
CollectionsApartWitness ==
  /\ disk.tasks.kind = "array"
  /\ Len(disk.tasks.value) = 2
  /\ disk.timers.kind = "open"
  /\ Len(saved.timers) = 1
  /\ loaded.op = "hydrate"
  /\ Len(loaded.tasks) = 2
  /\ DOMAIN loaded.timers = Ids(saved.timers)

----
\* The client and the server end to end: a signed-in user who edits while
\* offline and whose browser comes online and goes offline while no sync is
\* under way; every request gets its response.

\* the account u1 with the records that another device has synced
RegisteredWith(tasks) == [Registered EXCEPT !["u1"].tasks = tasks]

InitOffline ==
  /\ now = 1
  /\ usersById \in {RegisteredWith(tasks) :
                      tasks \in {<<>>, <<TaskItem("s1", TRUE, 1)>>}}
  /\ last = [op |-> "none"]
  /\ AuthIdle
  /\ MergeIdle
  /\ AccountIdle(Registered)
  /\ StoreInit
  /\ TimerInit
  /\ online = FALSE
  /\ syncing = FALSE
  /\ lastResult = NoResult
  /\ tokens = TokenPair("u1", 1)
  /\ localTasks = <<>>
  /\ idbTimers = << >>
  /\ appTasks = <<>>
  /\ appTimers = <<>>
  /\ calls = [c \in Calls |-> NoCall]
  /\ edits = 0

\* no sync call is under way
AllIdle == \A c \in Calls : calls[c] = NoCall

OfflineAddTask == ~online /\ addTask

OfflineAddTimerEntry == ~online /\ addTimerEntry

ComeOnline == AllIdle /\ handleOnline

GoOffline == AllIdle /\ handleOffline

\* the next step of a call
Run(c) == SyncGuard(c) \/ SyncServe(c) \/ SyncReceive(c) \/ SyncReturn(c)

NextOffline ==
  \/ OfflineAddTask
  \/ OfflineAddTimerEntry
  \/ ComeOnline
  \/ GoOffline
  \/ \E c \in Calls : SyncGuard(c)
  \/ \E c \in Calls : SyncServe(c)
  \/ \E c \in Calls : SyncReceive(c)
  \/ \E c \in Calls : SyncReturn(c)
  \/ ClientTick

\* the event loop runs every continuation of a call
SpecOffline ==
  InitOffline /\ [][NextOffline]_vars /\ \A c \in Calls : WF_vars(Run(c))

\* the call has sent, with a valid bearer, exactly the tasks and timers of
\* the last response
Resend(c) ==
  /\ calls[c].pc \in {"fetch", "responded", "savingResult"}
  /\ lastResult # NoResult
  /\ calls[c].tasks = lastResult.tasks
  /\ calls[c].timers = lastResult.timers
  /\ authenticate(usersById, calls[c].bearer, now) = "u1"

\* C28: after a successful authenticated sync, a second sync that sends
\* exactly the tasks and timers the server just returned is a no-op: the
\* user's authoritative sets stay, the response carries the same tasks and
\* timers, and the client's local store stays.
ResyncIsNoOp ==
  [][\A c \in Calls :
       Resend(c) =>
         /\ usersById'["u1"].tasks = usersById["u1"].tasks
         /\ usersById'["u1"].timers = usersById["u1"].timers
         /\ localTasks' = localTasks
         /\ idbTimers' = idbTimers
         /\ calls'[c].pc = "responded" =>
              /\ calls'[c].resp.tasks = calls[c].tasks
              /\ calls'[c].resp.timers = calls[c].timers]_vars

\* the response to a second sync, later than the first, of a task and a
\* timer of the client and a task of another device
ResyncIsNoOpWitness ==
  \E c \in Calls :
    /\ Resend(c)
    /\ calls[c].pc = "responded"
    /\ calls[c].resp.lastSyncedAt > lastResult.lastSyncedAt
    /\ Len(calls[c].tasks) = 2
    /\ Len(calls[c].timers) = 1

\* online and at rest: the sync that the online event started has returned
Quiet == online /\ AllIdle

\* the server handles the request of the call in this step
Served(c) == calls[c].pc = "fetch" /\ calls'[c].pc = "responded"

\* the records of a batch whose id the stored collection does not have
Fresh(batch, stored) == {r \in Range(batch) : r.id \notin Ids(stored)}

\* C29: end to end. A client creates a record with a fresh id while
\* offline, comes online and runs an authenticated sync against a server
\* that has no record of that id: the sync comes to its end, the server's
\* authoritative set then contains the record unchanged, the client's
\* local store is the set the server returned, and lastSyncedAt is set on
\* the client.
OfflineCreateSyncs ==
  /\ [][\A c \in Calls :
          Served(c) =>
            /\ Fresh(calls[c].tasks, usersById["u1"].tasks)
                 \subseteq Range(usersById'["u1"].tasks)
            /\ Fresh(calls[c].timers, usersById["u1"].timers)
                 \subseteq Range(usersById'["u1"].timers)]_vars
  /\ [](Quiet =>
          /\ lastResult.lastSyncedAt # Nil
          /\ localTasks = lastResult.tasks
          /\ idbTimers = PutAll(lastResult.timers)
          /\ lastResult.tasks = usersById["u1"].tasks
          /\ lastResult.timers = usersById["u1"].timers
          /\ Range(appTasks) \subseteq Range(usersById["u1"].tasks)
          /\ Range(appTimers) \subseteq Range(usersById["u1"].timers))
  /\ (online /\ ~AllIdle) ~> Quiet

\* a task and a timer made offline at tick 1 and synced at tick 2 to a
\* server that had a task of another device
OfflineCreateSyncsWitness ==
  /\ Quiet
  /\ lastResult.lastSyncedAt = 2
  /\ TaskItem(buildId(0), FALSE, 1) \in Range(usersById["u1"].tasks)
  /\ TaskItem("s1", TRUE, 1) \in Range(localTasks)
  /\ TimerEntry(buildId(1), 1, 2) \in Range(usersById["u1"].timers)
  /\ DOMAIN idbTimers = {buildId(1)}

----
\* The client: FocusTimer. The state of the component, the countdown effect
\* with its interval, and the entries given to onLogSession. Labels, the
\* noise player and an entry's timestamps and duration are left out: no
\* branch reads them.

\* most calls of onLogSession
MaxSessions == 5

\* the values that the user types into the focus length input
FocusLengths == {1}

\* what a render's finalizeSession closes over; the interval's callback keeps
\* the one of the render in which the countdown effect ran
Closure(t) ==
  [live |-> TRUE, mode |-> t.mode,
   completedFocusCount |-> t.completedFocusCount,
   focusMinutes |-> t.focusMinutes]

\* the state after startSession(category, minutes)
startSession(t, category, minutes) ==
  LET total == Max(1, minutes) * SecondsPerMinute
  IN [t EXCEPT !.startedAt = TRUE, !.mode = category,
               !.totalSeconds = total, !.secondsRemaining = total,
               !.runningState = "running"]

\* back to an idle focus timer of the closure's focus length
ResetToFocus(t, c) ==
  [t EXCEPT !.runningState = "idle",
            !.secondsRemaining = c.focusMinutes * SecondsPerMinute,
            !.totalSeconds = c.focusMinutes * SecondsPerMinute,
            !.mode = "focus"]

\* the calls of onLogSession after finalizeSession(status): one more, with
\* the closure's mode as category, unless the startedAt ref is null
LoggedBy(log, t, c, status) ==
  IF t.startedAt
  THEN [count |-> log.count + 1,
        last |-> [category |-> c.mode, status |-> status]]
  ELSE log

\* nextCount % 4 === 0 ? 'long-break' : 'short-break'
breakType(nextCount) ==
  IF nextCount % 4 = 0 THEN "long-break" ELSE "short-break"

\* the state after finalizeSession(status), run with the state c that the
\* caller's render closed over; the startedAt ref is read as it is now
finalizeSession(t, c, status) ==
  IF ~t.startedAt THEN ResetToFocus(t, c)
  ELSE IF c.mode = "focus" /\ status = "completed"
  THEN LET nextCount == c.completedFocusCount + 1
       IN startSession([t EXCEPT !.completedFocusCount = nextCount],
                       breakType(nextCount),
                       IF breakType(nextCount) = "long-break"
                       THEN LONG_BREAK_MINUTES ELSE SHORT_BREAK_MINUTES)
  ELSE [ResetToFocus(t, c) EXCEPT !.startedAt = FALSE]

\* the countdown effect, deps [isRunning]: it runs only when isRunning has
\* changed, clears the old interval and sets one when isRunning is true
CountdownEffect(t, after, i) ==
  IF (t.runningState = "running") = (after.runningState = "running") THEN i
  ELSE IF after.runningState = "running" THEN Closure(after)
  ELSE NoInterval

\* the four start buttons: 25-min preset, Start focus, Start short break,
\* Start long break; they are enabled in every state
StartButtons ==
  {<<"focus", FOCUS_PRESET_MINUTES>>, <<"focus", timer.focusMinutes>>,
   <<"short-break", SHORT_BREAK_MINUTES>>, <<"long-break", LONG_BREAK_MINUTES>>}

TimerFrame ==
  UNCHANGED <<now, serverVars, authVars, mergeVars, storeVars, accountVars,
              clientVars>>

\* a click on a start button
TimerStart ==
  /\ \E b \in StartButtons :
       /\ timer' = startSession(timer, b[1], b[2])
       /\ interval' = CountdownEffect(timer, timer', interval)
  /\ UNCHANGED sessions
  /\ TimerFrame

\* the user changes the focus length
TimerSetFocusMinutes ==
  /\ \E m \in FocusLengths : timer' = [timer EXCEPT !.focusMinutes = m]
  /\ UNCHANGED <<interval, sessions>>
  /\ TimerFrame

\* the state after handlePauseToggle
handlePauseToggle(t) ==
  IF t.runningState = "running" THEN [t EXCEPT !.runningState = "paused"]
  ELSE IF t.runningState = "paused" THEN [t EXCEPT !.runningState = "running"]
  ELSE t

\* a call of handlePauseToggle (the button is disabled when idle)
TimerPauseToggle ==
  /\ timer' = handlePauseToggle(timer)
  /\ interval' = CountdownEffect(timer, timer', interval)
  /\ UNCHANGED sessions
  /\ TimerFrame

\* a click on Stop & log (disabled when idle): handleCancel
handleCancel ==
  /\ timer.runningState # "idle"
  /\ sessions.count < MaxSessions
  /\ timer' = finalizeSession([timer EXCEPT !.runningState = "idle"],
                              Closure(timer), "cancelled")
  /\ sessions' = LoggedBy(sessions, timer, Closure(timer), "cancelled")
  /\ interval' = CountdownEffect(timer, timer', interval)
  /\ TimerFrame

\* what the end of a countdown leaves of secondsRemaining and of the
\* interval. The callback runs setRunningState('idle') and finalizeSession
\* inside the updater of setSecondsRemaining, which returns 0. Whether the 0
\* or the value that finalizeSession set is the last update, and whether a
\* commit with isRunning false happens between 'idle' and the 'running' of
\* an automatic break (only then the effect sets a new interval), depends
\* on how React runs the updater and batches the updates
CountdownEnds ==
  {[zero |-> TRUE, recommit |-> FALSE], [zero |-> FALSE, recommit |-> FALSE],
   [zero |-> TRUE, recommit |-> TRUE]}

\* the interval's callback: one second less, or the end of the session with
\* clearInterval, setRunningState('idle') and finalizeSession('completed')
\* of the render in which the interval was set
TimerCountdown ==
  /\ interval.live
  /\ IF timer.secondsRemaining <= 1
     THEN /\ sessions.count < MaxSessions
          /\ \E end \in CountdownEnds :
               LET after == finalizeSession(
                              [timer EXCEPT !.runningState = "idle"],
                              interval, "completed")
               IN /\ timer' = IF end.zero
                              THEN [after EXCEPT !.secondsRemaining = 0]
                              ELSE after
                  /\ interval' = IF after.runningState = "running"
                                    /\ end.recommit
                                 THEN Closure(after) ELSE NoInterval
          /\ sessions' = LoggedBy(sessions, timer, interval, "completed")
     ELSE /\ timer' = [timer EXCEPT !.secondsRemaining = @ - 1]
          /\ UNCHANGED <<interval, sessions>>
  /\ TimerFrame

InitTimer ==
  /\ now = 1 /\ ServerInit /\ AuthIdle /\ MergeIdle /\ AccountIdle(<< >>)
  /\ ClientInit

NextTimer ==
  \/ TimerStart
  \/ TimerSetFocusMinutes
  \/ TimerPauseToggle
  \/ handleCancel
  \/ TimerCountdown

SpecTimer == InitTimer /\ [][NextTimer]_vars

\* the step logs a session that ran to its end
Completes ==
  /\ sessions'.count = sessions.count + 1
  /\ sessions'.last.status = "completed"

\* the step logs a session that the user stopped
Cancels ==
  /\ sessions'.count = sessions.count + 1
  /\ sessions'.last.status = "cancelled"

\* C35: when a running focus session ends completed, completedFocusCount
\* grows by 1 and a break is running, a long one if the new count is a
\* multiple of 4 and a short one otherwise; when a session is cancelled or a
\* break ends, one entry is logged and the timer is idle in focus mode with
\* completedFocusCount as it was; handlePauseToggle turns running into
\* paused and paused into running, changes nothing else and nothing at all
\* when idle.
FocusCycle ==
  /\ [](/\ timer.runningState = "idle" => handlePauseToggle(timer) = timer
        /\ timer.runningState = "running" =>
             handlePauseToggle(timer) = [timer EXCEPT !.runningState = "paused"]
        /\ timer.runningState = "paused" =>
             handlePauseToggle(timer) = [timer EXCEPT !.runningState = "running"])
  /\ [][/\ (Completes /\ timer.mode = "focus") =>
             /\ timer'.completedFocusCount = timer.completedFocusCount + 1
             /\ timer'.runningState = "running"
             /\ timer'.mode =
                  IF timer'.completedFocusCount % 4 = 0
                  THEN "long-break" ELSE "short-break"
        /\ (Cancels \/ (Completes /\ timer.mode # "focus")) =>
             /\ timer'.runningState = "idle"
             /\ timer'.mode = "focus"
             /\ timer'.completedFocusCount = timer.completedFocusCount]_vars

====
